---- MODULE Spec2Model ----
(***************************************************************************)
(* Authentication and role-authorization core of the user service:        *)
(* UserService (services/userService.ts, e-mail keyed revision),          *)
(* UserController, AuthMiddleware, UserRepository and KafkaProducer.      *)
(*                                                                         *)
(* One action is one complete handler call.  bcrypt and jsonwebtoken are   *)
(* third-party libraries; they are modelled by their documented behaviour  *)
(* at the call sites (ideal salted hash, ideal signature, `exp` in the     *)
(* unit of the clock).                                                     *)
(***************************************************************************)
EXTENDS Integers, Sequences, FiniteSets, TLC

VARIABLES
    users,        \* the rows of the users table
    nextId,       \* the id the table gives to the next row
    now,          \* the clock, in the unit of the token lifetime
    jwtExpiry,    \* the configured token lifetime (AUTH_EXPIRY)
    isConnected,  \* KafkaProducer.isConnected
    held,         \* the login response the client keeps, or Null
    last,         \* the last handler call and what came of it
    registered,   \* history: the password each account was registered with
    env,          \* process.env as the service reads it
    app,          \* what app.ts has constructed: the secret the service runs with
    tasks,        \* the asynchronous calls in flight, each at one of its awaits
    client,       \* the kafkajs producer under KafkaProducer
    consumer,     \* KafkaConsumer: its handlers and what they were given
    pg            \* shared/db: the singleton, the clients made, the pool

\* the state of the infrastructure around the user service
infra == <<env, app, tasks, client, consumer, pg>>

vars == <<users, nextId, now, jwtExpiry, isConnected, held, last, registered,
          infra>>

----------------------------------------------------------------------------
(* Bounds of the model *)

MaxUsers == 2       \* rows the store ever creates
MaxTime  == 2       \* last value of the clock
MaxTtl   == 1       \* largest configured token lifetime, in clock ticks
MaxFields == 1      \* fields given in one update request
MaxBatch == 2       \* topic messages in one sendBatch
MaxTasks == 2       \* asynchronous calls in flight at one time
MaxMessages == 3    \* messages the consumer is handed
MaxClients == 2     \* PostgresClient instances ever constructed

----------------------------------------------------------------------------
(* Value domains *)

Emails    == {"a@x", "b@x"}
\* e-mail addresses tried at login: the above and one nobody registers
LoginEmails == Emails \cup {"nobody@x"}
Passwords == {"pw1", "pw2"}
Names     == {"Ann"}

\* enum UserRole
ADMIN   == "admin"
USER    == "user"
MANAGER == "manager"
UserRole == {ADMIN, USER, MANAGER}

\* the absent value (null / undefined) in every position that holds a record
Null == [isNull |-> TRUE]

\* constructor defaults: the signing secret of UserService and AuthMiddleware
JWT_SECRET   == "default-secret-change-me"
OtherSecret  == "attacker-secret"

----------------------------------------------------------------------------
(* bcrypt: salted one-way hash.  The salt is embedded in the output and    *)
(* compare needs only the plaintext and the stored hash.                   *)

SaltRounds == 10

bcrypt_hash(plaintext, rounds) ==
    [alg |-> "bcrypt", cost |-> rounds, of |-> plaintext]

\* variant: a comparison that accepts every password
bcrypt_compareAny(plaintext, hash) ==
    hash # Null

bcrypt_compare(plaintext, hash) ==
    /\ hash # Null
    /\ hash.of = plaintext

----------------------------------------------------------------------------
(* jsonwebtoken: sign / verify *)

JwtPayload(t) ==
    [userId |-> t.userId, email |-> t.email, role |-> t.role,
     iat |-> t.iat, exp |-> t.exp]

\* jwt.sign(payload, secret, { expiresIn }) issued at clock value `at`
jwt_sign(payload, secret, expiresIn, at) ==
    LET body == [userId |-> payload.userId, email |-> payload.email,
                 role |-> payload.role, iat |-> at, exp |-> at + expiresIn]
    IN  [wellFormed |-> TRUE,
         userId |-> body.userId, email |-> body.email, role |-> body.role,
         iat |-> body.iat, exp |-> body.exp,
         sig |-> [key |-> secret, over |-> body]]

\* variant: a verification that still accepts the token at the instant of exp
jwt_verifyExpiredAtAfterOnly(token, secret, at) ==
    IF ~token.wellFormed
    THEN [ok |-> FALSE, error |-> "jwt malformed", decoded |-> Null]
    ELSE IF token.sig.key # secret \/ token.sig.over # JwtPayload(token)
    THEN [ok |-> FALSE, error |-> "invalid signature", decoded |-> Null]
    ELSE IF at > token.exp
    THEN [ok |-> FALSE, error |-> "jwt expired", decoded |-> Null]
    ELSE [ok |-> TRUE, error |-> "", decoded |-> JwtPayload(token)]

\* jwt.verify(token, secret) at clock value `at`: the decoded payload, or the
\* message of the error it throws; jsonwebtoken throws TokenExpiredError
\* when the clock has reached exp (clockTimestamp >= payload.exp)
jwt_verify(token, secret, at) ==
    IF ~token.wellFormed
    THEN [ok |-> FALSE, error |-> "jwt malformed", decoded |-> Null]
    ELSE IF token.sig.key # secret \/ token.sig.over # JwtPayload(token)
    THEN [ok |-> FALSE, error |-> "invalid signature", decoded |-> Null]
    ELSE IF at >= token.exp
    THEN [ok |-> FALSE, error |-> "jwt expired", decoded |-> Null]
    ELSE [ok |-> TRUE, error |-> "", decoded |-> JwtPayload(token)]

----------------------------------------------------------------------------
(* UserRepository: the users table.  `rows` is the set of rows.            *)

findById(rows, id) ==
    IF \E u \in rows : u.id = id
    THEN CHOOSE u \in rows : u.id = id
    ELSE Null

\* variant: a lookup by e-mail address that finds nobody
findByEmailMisses(rows, email) ==
    Null

findByEmail(rows, email) ==
    IF \E u \in rows : u.email = email
    THEN CHOOSE u \in rows : u.email = email
    ELSE Null

\* variant: a table without the UNIQUE constraint on email
createWithoutUnique(rows, id, userDto) ==
    LET row == [id |-> id,
                email |-> userDto.email,
                passwordHash |-> bcrypt_hash(userDto.password, SaltRounds),
                firstName |-> userDto.firstName,
                role |-> IF "role" \in userDto.has THEN userDto.role ELSE USER,
                isActive |-> TRUE]
    IN  [ok |-> TRUE, error |-> "", rows |-> rows \cup {row}, row |-> row]

\* INSERT ... RETURNING *: hashes the password, role defaults to 'user',
\* is_active defaults to TRUE, email is UNIQUE
create(rows, id, userDto) ==
    IF \E u \in rows : u.email = userDto.email
    THEN [ok |-> FALSE, error |-> "duplicate key value violates unique constraint",
          rows |-> rows, row |-> Null]
    ELSE LET row == [id |-> id,
                     email |-> userDto.email,
                     passwordHash |-> bcrypt_hash(userDto.password, SaltRounds),
                     firstName |-> userDto.firstName,
                     role |-> IF "role" \in userDto.has THEN userDto.role ELSE USER,
                     isActive |-> TRUE]
         IN  [ok |-> TRUE, error |-> "", rows |-> rows \cup {row}, row |-> row]

\* variant: an update that writes is_active whether or not the request
\* carries isActive
updateAlwaysWritesIsActive(rows, id, userDto) ==
    LET old == findById(rows, id) IN
    IF old = Null
    THEN [ok |-> TRUE, error |-> "", rows |-> rows, row |-> Null]
    ELSE LET row == [id |-> old.id,
                     email |-> IF "email" \in userDto.has
                               THEN userDto.email ELSE old.email,
                     passwordHash |-> old.passwordHash,
                     firstName |-> IF "firstName" \in userDto.has
                                   THEN userDto.firstName ELSE old.firstName,
                     role |-> IF "role" \in userDto.has
                              THEN userDto.role ELSE old.role,
                     isActive |-> "isActive" \in userDto.has /\ userDto.isActive]
         IN  IF \E u \in rows : u.id # id /\ u.email = row.email
             THEN [ok |-> FALSE,
                   error |-> "duplicate key value violates unique constraint",
                   rows |-> rows, row |-> Null]
             ELSE [ok |-> TRUE, error |-> "",
                   rows |-> (rows \ {old}) \cup {row}, row |-> row]

\* UPDATE ... SET <provided fields> WHERE id = $n RETURNING *
update(rows, id, userDto) ==
    LET old == findById(rows, id) IN
    IF old = Null
    THEN [ok |-> TRUE, error |-> "", rows |-> rows, row |-> Null]
    ELSE LET row == [id |-> old.id,
                     email |-> IF "email" \in userDto.has
                               THEN userDto.email ELSE old.email,
                     passwordHash |-> old.passwordHash,
                     firstName |-> IF "firstName" \in userDto.has
                                   THEN userDto.firstName ELSE old.firstName,
                     role |-> IF "role" \in userDto.has
                              THEN userDto.role ELSE old.role,
                     isActive |-> IF "isActive" \in userDto.has
                                  THEN userDto.isActive ELSE old.isActive]
         IN  IF \E u \in rows : u.id # id /\ u.email = row.email
             THEN [ok |-> FALSE,
                   error |-> "duplicate key value violates unique constraint",
                   rows |-> rows, row |-> Null]
             ELSE [ok |-> TRUE, error |-> "",
                   rows |-> (rows \ {old}) \cup {row}, row |-> row]

\* DELETE FROM users WHERE id = $1; rowCount > 0
delete(rows, id) ==
    [rows |-> {u \in rows : u.id # id},
     deleted |-> \E u \in rows : u.id = id]

----------------------------------------------------------------------------
(* KafkaProducer *)

\* variant: a connect that calls producer.connect() whatever isConnected is
connectAlways(conn, connectOk) ==
    IF connectOk
    THEN [ok |-> TRUE, conn |-> TRUE, calls |-> <<"producer.connect">>]
    ELSE [ok |-> FALSE, conn |-> conn, calls |-> <<"producer.connect">>]

\* connect(): calls producer.connect() only when not connected; a failure is
\* logged and rethrown and isConnected stays false
connect(conn, connectOk) ==
    IF conn
    THEN [ok |-> TRUE, conn |-> TRUE, calls |-> <<>>]
    ELSE IF connectOk
         THEN [ok |-> TRUE, conn |-> TRUE, calls |-> <<"producer.connect">>]
         ELSE [ok |-> FALSE, conn |-> FALSE, calls |-> <<"producer.connect">>]

\* disconnect(): calls producer.disconnect() only when connected
disconnect(conn, disconnectOk) ==
    IF ~conn
    THEN [ok |-> TRUE, conn |-> FALSE, calls |-> <<>>]
    ELSE IF disconnectOk
         THEN [ok |-> TRUE, conn |-> FALSE, calls |-> <<"producer.disconnect">>]
         ELSE [ok |-> FALSE, conn |-> TRUE, calls |-> <<"producer.disconnect">>]

\* variant: a sendMessage that sends the message a second time
sendMessageTwice(conn, topic, connectOk, sendOk) ==
    LET c == IF conn THEN [ok |-> TRUE, conn |-> TRUE, calls |-> <<>>]
             ELSE connect(conn, connectOk)
    IN  IF ~c.ok
        THEN [ok |-> FALSE, error |-> "KafkaJSConnectionError",
              conn |-> c.conn, calls |-> c.calls]
        ELSE IF sendOk
        THEN [ok |-> TRUE, error |-> "", conn |-> c.conn,
              calls |-> c.calls \o <<"producer.send:" \o topic,
                                     "producer.send:" \o topic>>]
        ELSE [ok |-> FALSE, error |-> "KafkaJSError",
              conn |-> c.conn,
              calls |-> c.calls \o <<"producer.send:" \o topic>>]

\* sendMessage(topic, message): connects first when needed, then
\* producer.send; every error is logged and rethrown
sendMessage(conn, topic, connectOk, sendOk) ==
    LET c == IF conn THEN [ok |-> TRUE, conn |-> TRUE, calls |-> <<>>]
             ELSE connect(conn, connectOk)
    IN  IF ~c.ok
        THEN [ok |-> FALSE, error |-> "KafkaJSConnectionError",
              conn |-> c.conn, calls |-> c.calls]
        ELSE IF sendOk
        THEN [ok |-> TRUE, error |-> "", conn |-> c.conn,
              calls |-> c.calls \o <<"producer.send:" \o topic>>]
        ELSE [ok |-> FALSE, error |-> "KafkaJSError",
              conn |-> c.conn,
              calls |-> c.calls \o <<"producer.send:" \o topic>>]

\* variant: a sendBatch that sends without connecting first
sendBatchUnconnected(conn, topicMessages, connectOk, sendOk) ==
    IF sendOk
    THEN [ok |-> TRUE, error |-> "", conn |-> conn,
          calls |-> <<"producer.sendBatch">>]
    ELSE [ok |-> FALSE, error |-> "KafkaJSError", conn |-> conn,
          calls |-> <<"producer.sendBatch">>]

\* sendBatch(topicMessages): connects first when needed, then one
\* producer.sendBatch for the whole list; every error is logged and rethrown
sendBatch(conn, topicMessages, connectOk, sendOk) ==
    LET c == IF conn THEN [ok |-> TRUE, conn |-> TRUE, calls |-> <<>>]
             ELSE connect(conn, connectOk)
    IN  IF ~c.ok
        THEN [ok |-> FALSE, error |-> "KafkaJSConnectionError",
              conn |-> c.conn, calls |-> c.calls]
        ELSE IF sendOk
        THEN [ok |-> TRUE, error |-> "", conn |-> c.conn,
              calls |-> c.calls \o <<"producer.sendBatch">>]
        ELSE [ok |-> FALSE, error |-> "KafkaJSError",
              conn |-> c.conn,
              calls |-> c.calls \o <<"producer.sendBatch">>]

----------------------------------------------------------------------------
(* KafkaConsumer *)

\* message.value: absent, an empty buffer, JSON text, text that is not JSON
NoValue == "null"
MessageValues == {NoValue, "", "{\"id\":1}", "Not a valid JSON message"}

\* JSON.parse: the value, or the SyntaxError it throws
JSON_parse(text) ==
    IF text = "{\"id\":1}"
    THEN [ok |-> TRUE, data |-> [id |-> 1]]
    ELSE [ok |-> FALSE, data |-> Null]

\* `valueString ? JSON.parse(valueString) : null`
ParsedValue(value) ==
    IF value \in {NoValue, ""}
    THEN [ok |-> TRUE, data |-> Null]
    ELSE JSON_parse(value)

\* variant: a processMessage without the try / catch
processMessageRethrows(eventHandlers, topic, value, handlerOk) ==
    IF topic \notin eventHandlers
    THEN [threw |-> FALSE, handled |-> <<>>, logged |-> 0, warned |-> TRUE]
    ELSE LET parsed == ParsedValue(value) IN
         IF ~parsed.ok
         THEN [threw |-> TRUE, handled |-> <<>>, logged |-> 0, warned |-> FALSE]
         ELSE [threw |-> ~handlerOk,
               handled |-> <<[topic |-> topic, data |-> parsed.data]>>,
               logged |-> 0, warned |-> FALSE]

\* processMessage({ topic, partition, message }): whether an error leaves
\* it, what it hands to the handler of the topic, how many errors it logs
processMessage(eventHandlers, topic, value, handlerOk) ==
    IF topic \notin eventHandlers
    THEN [threw |-> FALSE, handled |-> <<>>, logged |-> 0, warned |-> TRUE]
    ELSE LET parsed == ParsedValue(value) IN
         IF ~parsed.ok
         THEN [threw |-> FALSE, handled |-> <<>>, logged |-> 1, warned |-> FALSE]
         ELSE [threw |-> FALSE,
               handled |-> <<[topic |-> topic, data |-> parsed.data]>>,
               logged |-> IF handlerOk THEN 0 ELSE 1, warned |-> FALSE]

----------------------------------------------------------------------------
(* PostgresClient *)

\* where a transaction meets its first failure: nowhere, pool.connect(),
\* BEGIN, the callback, COMMIT
TxFailures == {"none", "pool.connect", "BEGIN", "callback", "COMMIT"}

\* the error each of them rejects with
TxErrorOf(fails) ==
    CASE fails = "pool.connect" -> "ConnectError"
      [] fails = "BEGIN"        -> "BeginError"
      [] fails = "callback"     -> "CallbackError"
      [] fails = "COMMIT"       -> "CommitError"
      [] OTHER                  -> ""

\* how a call of transaction ends: returned value or thrown error, the
\* queries sent on the client, whether a client was acquired, how many
\* times it was released
TxOutcome(ok, value, error, queries, acquired, released) ==
    [ok |-> ok, value |-> value, error |-> error, queries |-> queries,
     acquired |-> acquired, released |-> released]

\* transaction(callback): getClient, BEGIN, the callback, COMMIT; the catch
\* sends ROLLBACK and rethrows, the finally releases the client.  `fails`
\* is the first step that rejects, rollbackOk whether ROLLBACK resolves,
\* result what the callback resolves with
transaction(fails, rollbackOk, result) ==
    IF fails = "pool.connect"
    THEN TxOutcome(FALSE, Null, TxErrorOf(fails), <<>>, FALSE, 0)
    ELSE
    LET tried == CASE fails = "BEGIN"    -> <<"BEGIN">>
                   [] fails = "callback" -> <<"BEGIN", "callback">>
                   [] OTHER              -> <<"BEGIN", "callback", "COMMIT">>
    IN
    IF fails = "none"
    THEN TxOutcome(TRUE, result, "", tried, TRUE, 1)
    ELSE IF rollbackOk
    THEN TxOutcome(FALSE, Null, TxErrorOf(fails), tried \o <<"ROLLBACK">>, TRUE, 1)
    ELSE TxOutcome(FALSE, Null, "RollbackError", tried \o <<"ROLLBACK">>, TRUE, 1)

----------------------------------------------------------------------------
(* UserService *)

\* variant: a DTO that is the stored row
toDTOLeaks(user) ==
    user

\* toDTO: the user without its passwordHash
toDTO(user) ==
    [id |-> user.id, email |-> user.email, firstName |-> user.firstName,
     role |-> user.role, isActive |-> user.isActive]

\* what a service call leaves behind: its outcome (returned value or thrown
\* error), the table and the producer state after it, the calls it made to
\* its collaborators in order, and the event it tried to publish
Outcome(ok, error, value, rows, conn, calls, event) ==
    [ok |-> ok, error |-> error, value |-> value, rows |-> rows,
     conn |-> conn, calls |-> calls, event |-> event]

KafkaErrors == {"KafkaJSConnectionError", "KafkaJSError"}

Throw(error, rows, conn, calls, event) ==
    Outcome(FALSE, error, Null, rows, conn, calls, event)

StorageError == "StorageError"

\* the infrastructure fault injected into one call of a handler: none, the
\* n-th repository call throws, producer.connect throws, producer.send throws
Faults == {"none", "db1", "db2", "db3", "kafka.connect", "kafka.send"}

\* the faults that can strike a handler making n repository calls while the
\* producer is in state conn
FaultsOf(n, conn) ==
    {f \in Faults :
        /\ f = "db2" => n >= 2
        /\ f = "db3" => n >= 3
        /\ f = "kafka.connect" => ~conn}

DbFails(fault, n) ==
    \/ n = 1 /\ fault = "db1"
    \/ n = 2 /\ fault = "db2"
    \/ n = 3 /\ fault = "db3"

ConnectOk(fault) == fault # "kafka.connect"

SendOk(fault) == fault # "kafka.send"

\* createUser(userDto)
createUser(rows, conn, id, userDto, at, fault) ==
    IF DbFails(fault, 1)
    THEN Throw(StorageError, rows, conn, <<"repo.findByEmail">>, Null)
    ELSE
    LET existingByEmail == findByEmail(rows, userDto.email) IN
    IF existingByEmail # Null
    THEN Throw("Email already exists", rows, conn, <<"repo.findByEmail">>, Null)
    ELSE
    LET c1 == <<"repo.findByEmail", "repo.create">> IN
    IF DbFails(fault, 2)
    THEN Throw(StorageError, rows, conn, c1, Null)
    ELSE
    LET ins == create(rows, id, userDto) IN
    IF ~ins.ok
    THEN Throw(ins.error, rows, conn, c1, Null)
    ELSE
    LET newUser == ins.row
        event == [topic |-> "user.created",
                  message |-> [id |-> newUser.id, email |-> newUser.email,
                               role |-> newUser.role, timestamp |-> at]]
        pub == sendMessage(conn, "user.created", ConnectOk(fault), SendOk(fault))
    IN  IF ~pub.ok
        THEN Throw(pub.error, ins.rows, pub.conn, c1 \o pub.calls, event)
        ELSE Outcome(TRUE, "", toDTO(newUser), ins.rows, pub.conn,
                     c1 \o pub.calls, event)

\* updateUser(id, userDto)
updateUser(rows, conn, id, userDto, at, fault) ==
    IF DbFails(fault, 1)
    THEN Throw(StorageError, rows, conn, <<"repo.findById">>, Null)
    ELSE
    LET existingUser == findById(rows, id) IN
    IF existingUser = Null
    THEN Throw("User not found", rows, conn, <<"repo.findById">>, Null)
    ELSE
    LET checksEmail == "email" \in userDto.has
                       /\ userDto.email # existingUser.email
        c1 == IF checksEmail
              THEN <<"repo.findById", "repo.findByEmail">>
              ELSE <<"repo.findById">>
    IN
    IF checksEmail /\ DbFails(fault, 2)
    THEN Throw(StorageError, rows, conn, c1, Null)
    ELSE IF checksEmail /\ findByEmail(rows, userDto.email) # Null
    THEN Throw("Email already exists", rows, conn, c1, Null)
    ELSE
    LET c2 == c1 \o <<"repo.update">> IN
    IF DbFails(fault, 3)
    THEN Throw(StorageError, rows, conn, c2, Null)
    ELSE
    LET upd == update(rows, id, userDto) IN
    IF ~upd.ok
    THEN Throw(upd.error, rows, conn, c2, Null)
    ELSE IF upd.row = Null
    THEN Outcome(TRUE, "", Null, upd.rows, conn, c2, Null)
    ELSE
    LET updatedUser == upd.row
        event == [topic |-> "user.updated",
                  message |-> [userId |-> updatedUser.id,
                               email |-> updatedUser.email,
                               role |-> updatedUser.role,
                               isActive |-> updatedUser.isActive,
                               timestamp |-> at]]
        pub == sendMessage(conn, "user.updated", ConnectOk(fault), SendOk(fault))
    IN  IF ~pub.ok
        THEN Throw(pub.error, upd.rows, pub.conn, c2 \o pub.calls, event)
        ELSE Outcome(TRUE, "", toDTO(updatedUser), upd.rows, pub.conn,
                     c2 \o pub.calls, event)

\* deleteUser(id)
deleteUser(rows, conn, id, at, fault) ==
    IF DbFails(fault, 1)
    THEN Throw(StorageError, rows, conn, <<"repo.findById">>, Null)
    ELSE
    LET existingUser == findById(rows, id) IN
    IF existingUser = Null
    THEN Throw("User not found", rows, conn, <<"repo.findById">>, Null)
    ELSE
    LET c1 == <<"repo.findById", "repo.delete">> IN
    IF DbFails(fault, 2)
    THEN Throw(StorageError, rows, conn, c1, Null)
    ELSE
    LET del == delete(rows, id) IN
    IF ~del.deleted
    THEN Outcome(TRUE, "", [bool |-> FALSE], del.rows, conn, c1, Null)
    ELSE
    LET event == [topic |-> "user.deleted",
                  message |-> [userId |-> id, timestamp |-> at]]
        pub == sendMessage(conn, "user.deleted", ConnectOk(fault), SendOk(fault))
    IN  IF ~pub.ok
        THEN Throw(pub.error, del.rows, pub.conn, c1 \o pub.calls, event)
        ELSE Outcome(TRUE, "", [bool |-> TRUE], del.rows, pub.conn,
                     c1 \o pub.calls, event)

\* variant: a login that does not look at isActive
accountDisabledNever(user) ==
    FALSE

\* login: the account gate, `if (!user.isActive)`
accountDisabled(user) ==
    ~user.isActive

\* variant: a login that throws on a password mismatch without publishing
loginWithoutFailedEvent(rows, conn, credentials, secret, expiresIn, at, fault) ==
    IF DbFails(fault, 1)
    THEN Throw(StorageError, rows, conn, <<"repo.findByEmail">>, Null)
    ELSE
    LET user == findByEmail(rows, credentials.email) IN
    IF user = Null
    THEN Throw("Invalid email or password", rows, conn,
               <<"repo.findByEmail">>, Null)
    ELSE IF accountDisabled(user)
    THEN Throw("User account is disabled", rows, conn,
               <<"repo.findByEmail">>, Null)
    ELSE IF ~bcrypt_compare(credentials.password, user.passwordHash)
    THEN Throw("Invalid email or password", rows, conn,
               <<"repo.findByEmail", "bcrypt.compare">>, Null)
    ELSE
    LET token == jwt_sign([userId |-> user.id, email |-> user.email,
                           role |-> user.role], secret, expiresIn, at)
        pub == sendMessage(conn, "user.login", ConnectOk(fault), SendOk(fault))
        calls == <<"repo.findByEmail", "bcrypt.compare", "jwt.sign">> \o pub.calls
        event == [topic |-> "user.login",
                  message |-> [userId |-> user.id, email |-> user.email,
                               timestamp |-> at]]
    IN  IF ~pub.ok
        THEN Throw(pub.error, rows, pub.conn, calls, event)
        ELSE Outcome(TRUE, "", [user |-> toDTO(user), token |-> token],
                     rows, pub.conn, calls, event)

\* login(credentials)
login(rows, conn, credentials, secret, expiresIn, at, fault) ==
    IF DbFails(fault, 1)
    THEN Throw(StorageError, rows, conn, <<"repo.findByEmail">>, Null)
    ELSE
    LET user == findByEmail(rows, credentials.email) IN
    IF user = Null
    THEN Throw("Invalid email or password", rows, conn,
               <<"repo.findByEmail">>, Null)
    ELSE IF accountDisabled(user)
    THEN Throw("User account is disabled", rows, conn,
               <<"repo.findByEmail">>, Null)
    ELSE
    LET c1 == <<"repo.findByEmail", "bcrypt.compare">>
        isPasswordValid == bcrypt_compare(credentials.password, user.passwordHash)
    IN
    IF ~isPasswordValid
    THEN LET event == [topic |-> "user.login.failed",
                       message |-> [email |-> credentials.email,
                                    timestamp |-> at]]
             pub == sendMessage(conn, "user.login.failed", ConnectOk(fault), SendOk(fault))
         IN  IF ~pub.ok
             THEN Throw(pub.error, rows, pub.conn, c1 \o pub.calls, event)
             ELSE Throw("Invalid email or password", rows, pub.conn,
                        c1 \o pub.calls, event)
    ELSE
    LET token == jwt_sign([userId |-> user.id, email |-> user.email,
                           role |-> user.role], secret, expiresIn, at)
        c2 == c1 \o <<"jwt.sign">>
        event == [topic |-> "user.login",
                  message |-> [userId |-> user.id, email |-> user.email,
                               timestamp |-> at]]
        pub == sendMessage(conn, "user.login", ConnectOk(fault), SendOk(fault))
    IN  IF ~pub.ok
        THEN Throw(pub.error, rows, pub.conn, c2 \o pub.calls, event)
        ELSE Outcome(TRUE, "", [user |-> toDTO(user), token |-> token],
                     rows, pub.conn, c2 \o pub.calls, event)

\* the object changePassword hands to userRepository.update: it has no field
EmptyUpdate == [has |-> {}]

\* variant: a changePassword that takes any current password
currentPasswordAccepted(currentPassword, user) ==
    TRUE

\* changePassword: the gate on the current password
currentPasswordValid(currentPassword, user) ==
    bcrypt_compare(currentPassword, user.passwordHash)

\* changePassword(id, currentPassword, newPassword)
changePassword(rows, conn, id, currentPassword, newPassword, at, fault) ==
    IF DbFails(fault, 1)
    THEN Throw(StorageError, rows, conn, <<"repo.findById">>, Null)
    ELSE
    LET user == findById(rows, id) IN
    IF user = Null
    THEN Throw("User not found", rows, conn, <<"repo.findById">>, Null)
    ELSE
    LET c1 == <<"repo.findById", "bcrypt.compare">> IN
    IF ~currentPasswordValid(currentPassword, user)
    THEN Throw("Current password is incorrect", rows, conn, c1, Null)
    ELSE
    LET hashedPassword == bcrypt_hash(newPassword, SaltRounds)
        c2 == c1 \o <<"bcrypt.hash", "repo.update">>
    IN
    IF DbFails(fault, 2)
    THEN Throw(StorageError, rows, conn, c2, Null)
    ELSE
    LET upd == update(rows, id, EmptyUpdate)
        event == [topic |-> "user.password.changed",
                  message |-> [userId |-> id, timestamp |-> at]]
        pub == sendMessage(conn, "user.password.changed", ConnectOk(fault), SendOk(fault))
    IN  IF ~pub.ok
        THEN Throw(pub.error, upd.rows, pub.conn, c2 \o pub.calls, event)
        ELSE Outcome(TRUE, "", [bool |-> TRUE], upd.rows, pub.conn,
                     c2 \o pub.calls, event)

\* findById(id), findByEmail(email), findAll()
serviceFindById(rows, id) ==
    LET user == findById(rows, id) IN
    IF user # Null THEN toDTO(user) ELSE Null

serviceFindByEmail(rows, email) ==
    LET user == findByEmail(rows, email) IN
    IF user # Null THEN toDTO(user) ELSE Null

serviceFindAll(rows) ==
    {toDTO(user) : user \in rows}

----------------------------------------------------------------------------
(* UserController: the HTTP response built from the outcome of the service *)

\* error.message.includes(part)
Includes(message, part) ==
    \/ part = "already exists" /\ message = "Email already exists"
    \/ part = "not found"      /\ message = "User not found"
    \/ part = "incorrect"      /\ message = "Current password is incorrect"

Response(status, body) == [status |-> status, body |-> body]

ErrorBody(status, message, details) ==
    [status |-> status, message |-> message, details |-> details]

UserController_getUserById(value) ==
    IF value = Null
    THEN Response(404, [status |-> 404, message |-> "User not found"])
    ELSE Response(200, value)

UserController_getUsers(items) ==
    Response(200, [items |-> items])

UserController_createUser(out) ==
    IF out.ok
    THEN Response(201, out.value)
    ELSE IF Includes(out.error, "already exists") \/ Includes(out.error, "validation")
    THEN Response(400, ErrorBody(400, "Invalid user data", out.error))
    ELSE Response(500, ErrorBody(500, "Error creating user", out.error))

UserController_updateUser(out) ==
    IF out.ok
    THEN IF out.value = Null
         THEN Response(404, [status |-> 404, message |-> "User not found"])
         ELSE Response(200, out.value)
    ELSE IF Includes(out.error, "not found") \/ Includes(out.error, "already exists")
    THEN Response(400, ErrorBody(400, "Invalid update data", out.error))
    ELSE Response(500, ErrorBody(500, "Error updating user", out.error))

UserController_deleteUser(out) ==
    IF out.ok
    THEN IF ~out.value.bool
         THEN Response(404, [status |-> 404, message |-> "User not found"])
         ELSE Response(204, Null)
    ELSE IF Includes(out.error, "not found")
    THEN Response(404, ErrorBody(404, "User not found", out.error))
    ELSE Response(500, ErrorBody(500, "Error deleting user", out.error))

\* variant: a login handler that sends the message of the error it caught
UserController_loginEchoesError(out) ==
    IF out.ok
    THEN Response(200, out.value)
    ELSE Response(401, ErrorBody(401, "Authentication failed", out.error))

UserController_login(out) ==
    IF out.ok
    THEN Response(200, out.value)
    ELSE Response(401, ErrorBody(401, "Authentication failed",
                                 "Invalid email or password"))

\* the outcome of a handler that answered without calling the service
NoCall(rows, conn) ==
    Outcome(FALSE, "", Null, rows, conn, <<>>, Null)

\* UserController.changePassword, req.user being reqUser: the id is read
\* from req.user?.id
UserController_changePassword(reqUser, currentPassword, newPassword, rows, conn, at, fault) ==
    IF reqUser = Null \/ "id" \notin DOMAIN reqUser
    THEN [resp |-> Response(401, [status |-> 401,
                                  message |-> "Authentication required"]),
          out |-> NoCall(rows, conn)]
    ELSE LET out == changePassword(rows, conn, reqUser.id, currentPassword,
                                   newPassword, at, fault)
         IN  [resp |-> IF out.ok
                       THEN Response(200, [message |-> "Password changed successfully"])
                       ELSE IF Includes(out.error, "incorrect")
                       THEN Response(400, ErrorBody(400, "Password change failed",
                                                    out.error))
                       ELSE Response(500, ErrorBody(500, "Error changing password",
                                                    out.error)),
              out |-> out]

----------------------------------------------------------------------------
(* AuthMiddleware *)

\* the Authorization header: absent, or authHeader.split(' ')
NoHeader == [present |-> FALSE]

Header(scheme, nparts, token) ==
    [present |-> TRUE, scheme |-> scheme, nparts |-> nparts, token |-> token]

\* variant: an authenticate that does not look at the scheme
authenticateAnyScheme(header, secret, at) ==
    IF ~header.present
    THEN [resp |-> Response(401, [status |-> 401, message |-> "No token provided"]),
          user |-> Null, next |-> FALSE, calls |-> <<>>]
    ELSE IF header.nparts # 2
    THEN [resp |-> Response(401, [status |-> 401, message |-> "Token error"]),
          user |-> Null, next |-> FALSE, calls |-> <<>>]
    ELSE LET v == jwt_verify(header.token, secret, at) IN
         IF v.ok
         THEN [resp |-> Null, user |-> v.decoded, next |-> TRUE,
               calls |-> <<"jwt.verify">>]
         ELSE [resp |-> Response(401, ErrorBody(401, "Authentication failed",
                                                v.error)),
               user |-> Null, next |-> FALSE, calls |-> <<"jwt.verify">>]

\* variant: an authenticate that looks the subject up in the users table and
\* takes the role from the row
authenticateConsultsStore(header, secret, at) ==
    IF ~header.present
    THEN [resp |-> Response(401, [status |-> 401, message |-> "No token provided"]),
          user |-> Null, next |-> FALSE, calls |-> <<>>]
    ELSE IF header.nparts # 2 \/ header.scheme # "Bearer"
    THEN [resp |-> Response(401, [status |-> 401, message |-> "Token error"]),
          user |-> Null, next |-> FALSE, calls |-> <<>>]
    ELSE LET v == jwt_verify(header.token, secret, at) IN
         IF v.ok /\ findById(users, v.decoded.userId) # Null
         THEN [resp |-> Null,
               user |-> [v.decoded EXCEPT
                            !.role = findById(users, v.decoded.userId).role],
               next |-> TRUE, calls |-> <<"jwt.verify", "repo.findById">>]
         ELSE [resp |-> Response(401, ErrorBody(401, "Authentication failed",
                                                "User not found")),
               user |-> Null, next |-> FALSE, calls |-> <<"jwt.verify">>]

\* authenticate(req, res, next): the response it sends (or none), the
\* identity it attaches to the request, and whether it calls next
authenticate(header, secret, at) ==
    IF ~header.present
    THEN [resp |-> Response(401, [status |-> 401, message |-> "No token provided"]),
          user |-> Null, next |-> FALSE, calls |-> <<>>]
    ELSE IF header.nparts # 2 \/ header.scheme # "Bearer"
    THEN [resp |-> Response(401, [status |-> 401, message |-> "Token error"]),
          user |-> Null, next |-> FALSE, calls |-> <<>>]
    ELSE LET v == jwt_verify(header.token, secret, at) IN
         IF v.ok
         THEN [resp |-> Null, user |-> v.decoded, next |-> TRUE,
               calls |-> <<"jwt.verify">>]
         ELSE [resp |-> Response(401, ErrorBody(401, "Authentication failed",
                                                v.error)),
               user |-> Null, next |-> FALSE, calls |-> <<"jwt.verify">>]

\* req.user.role, or a value no role list includes when the identity has none
RoleOf(reqUser) ==
    IF "role" \in DOMAIN reqUser THEN reqUser.role ELSE "undefined"

\* variant: a role check that lets every identity through
checkRoleAnyIdentity(roles, reqUser) ==
    IF reqUser = Null
    THEN [resp |-> Response(401, [status |-> 401,
                                  message |-> "Authentication required"]),
          next |-> FALSE]
    ELSE [resp |-> Null, next |-> TRUE]

\* checkRole(roles)(req, res, next), req.user being reqUser
checkRole(roles, reqUser) ==
    IF reqUser = Null
    THEN [resp |-> Response(401, [status |-> 401,
                                  message |-> "Authentication required"]),
          next |-> FALSE]
    ELSE IF RoleOf(reqUser) \notin roles
    THEN [resp |-> Response(403, ErrorBody(403, "Access denied",
                                           "Insufficient permissions")),
          next |-> FALSE]
    ELSE [resp |-> Null, next |-> TRUE]

----------------------------------------------------------------------------
(* RoleMiddleware *)

\* RoleMiddleware.authenticate: verifies the token, then reads the user from
\* the users table and attaches {id, isActive, email, role} from the row
RoleMiddleware_authenticate(header, rows, secret, at) ==
    IF ~header.present \/ header.scheme # "Bearer" \/ header.nparts < 2
    THEN [resp |-> Response(401, [error |-> "Authentication required"]),
          user |-> Null, next |-> FALSE]
    ELSE LET v == jwt_verify(header.token, secret, at) IN
         IF ~v.ok
         THEN [resp |-> Response(401, [error |-> "Authentication failed"]),
               user |-> Null, next |-> FALSE]
         ELSE LET user == findById(rows, v.decoded.userId) IN
              IF user = Null
              THEN [resp |-> Response(401, [error |-> "User not found"]),
                    user |-> Null, next |-> FALSE]
              ELSE [resp |-> Null,
                    user |-> [id |-> user.id, isActive |-> user.isActive,
                              email |-> user.email, role |-> user.role],
                    next |-> TRUE]

\* variant: an owner-or-privileged check that does not look at isActive
isResourceOwnerOrAdminOfAnyone(resourceOwnerId, reqUser) ==
    IF reqUser = Null
    THEN [resp |-> Response(401, [error |-> "Authentication required"]),
          next |-> FALSE]
    ELSE IF \/ reqUser.id = resourceOwnerId
            \/ reqUser.role = ADMIN
            \/ reqUser.role = MANAGER
    THEN [resp |-> Null, next |-> TRUE]
    ELSE [resp |-> Response(403, [error |-> "Insufficient permissions"]),
          next |-> FALSE]

\* isResourceOwnerOrAdmin(userIdExtractor)(req, res, next), the extractor
\* giving resourceOwnerId and req.user being reqUser
isResourceOwnerOrAdmin(resourceOwnerId, reqUser) ==
    IF reqUser = Null
    THEN [resp |-> Response(401, [error |-> "Authentication required"]),
          next |-> FALSE]
    ELSE IF ~reqUser.isActive
    THEN [resp |-> Response(401, [error |-> "Authentication required"]),
          next |-> FALSE]
    ELSE IF \/ reqUser.id = resourceOwnerId
            \/ reqUser.role = ADMIN
            \/ reqUser.role = MANAGER
    THEN [resp |-> Null, next |-> TRUE]
    ELSE [resp |-> Response(403, [error |-> "Insufficient permissions"]),
          next |-> FALSE]

----------------------------------------------------------------------------
(* Inputs *)

Ids == 1..MaxUsers

\* bodies of POST /register: role is optional
CreateDTOs ==
    {[has |-> {}, email |-> e, password |-> p, firstName |-> n, role |-> USER] :
        e \in Emails, p \in Passwords, n \in Names}
    \cup
    {[has |-> {"role"}, email |-> e, password |-> p, firstName |-> n, role |-> r] :
        e \in Emails, p \in Passwords, n \in Names, r \in UserRole}

\* bodies of PUT /:id: every field is optional, at most MaxFields are given;
\* an absent field holds a fixed value that is never read
UpdateDTOs ==
    {d \in [has : {h \in SUBSET {"email", "firstName", "role", "isActive"} :
                        Cardinality(h) <= MaxFields},
            email : Emails, firstName : Names, role : UserRole,
            isActive : BOOLEAN] :
        /\ "email" \notin d.has => d.email = "a@x"
        /\ "role" \notin d.has => d.role = ADMIN
        /\ "isActive" \notin d.has => d.isActive = FALSE
        /\ "firstName" \notin d.has => d.firstName = "Ann"}

Garbage == [wellFormed |-> FALSE]

\* the tokens a client can put after "Bearer": the token it was handed, that
\* token with its claims rewritten, the same claims signed with another key,
\* and a string that is no token
Tampered(t) == [t EXCEPT !.role = ADMIN, !.exp = t.exp + 1]

Forged(t) == jwt_sign(JwtPayload(t), OtherSecret, t.exp - t.iat, t.iat)

Presentable ==
    IF held = Null
    THEN {Garbage}
    ELSE {Garbage, held.token, Tampered(held.token), Forged(held.token)}

Headers ==
    {NoHeader}
    \cup {Header(sch, 2, t) : sch \in {"Bearer", "Basic"}, t \in Presentable}
    \cup {Header("Bearer", n, Garbage) : n \in {1, 3}}

----------------------------------------------------------------------------
(* State *)

\* the record of the last handler call: what was asked, what the service
\* returned or threw, which collaborators it called and what it tried to
\* publish, what the HTTP caller saw
Last(op, args, out, resp) ==
    [op |-> op, args |-> args, ok |-> out.ok, error |-> out.error,
     value |-> out.value, calls |-> out.calls, event |-> out.event,
     pub |-> IF out.event = Null THEN "none"
             ELSE IF out.error \in KafkaErrors THEN "failed" ELSE "sent",
     resp |-> resp, user |-> Null, next |-> FALSE]

Quiet(op, calls) ==
    [op |-> op, args |-> Null, ok |-> TRUE, error |-> "", value |-> Null,
     calls |-> calls, event |-> Null, pub |-> "none", resp |-> Null,
     user |-> Null, next |-> FALSE]

\* an environment variable that is not set
Unset == "undefined"

\* `process.env.JWT_SECRET || 'default-secret-change-me'`: an unset or empty
\* variable gives the built-in default
SecretOf(e) ==
    IF e.JWT_SECRET \in {Unset, ""} THEN JWT_SECRET ELSE e.JWT_SECRET

\* the process before startServer has run
Down == [started |-> FALSE, exited |-> FALSE, jwtSecret |-> ""]

\* the process once app.ts and startServer have run in environment e
Up(e) == [started |-> TRUE, exited |-> FALSE, jwtSecret |-> SecretOf(e)]

\* a development environment without JWT_SECRET
DevEnv == [NODE_ENV |-> "development", JWT_SECRET |-> Unset]

\* the slots of the asynchronous calls in flight
Tasks == 1..MaxTasks

\* a slot with no call in it
IdleTask == [op |-> "", at |-> "idle"]

\* no asynchronous call in flight
NoTasks == [t \in Tasks |-> IdleTask]

\* the kafkajs producer as kafka.producer() returns it: connects counts the
\* calls of producer.connect() that no failure and no disconnect has undone
FreshClient == [connects |-> 0]

\* the kafkajs producer after the kafkaProducer.connect() of startServer
ConnectedClient == [connects |-> 1]

\* a KafkaConsumer after construction: no handler; history: nothing handed
\* to a handler, nothing logged, nothing consumed
FreshConsumer ==
    [eventHandlers |-> {}, handled |-> <<>>, logged |-> 0, consumed |-> 0]

\* shared/db/client.ts after import: postgresClient is null (0); history:
\* how many PostgresClient were constructed (they are numbered from 1), on
\* which of them close() was called, on which it has completed
FreshPg == [postgresClient |-> 0, made |-> 0, closing |-> {}, closed |-> {}]

\* the infrastructure as a started development service has it, nothing in
\* flight
AtRest ==
    /\ env = DevEnv
    /\ app = Up(DevEnv)
    /\ tasks = NoTasks
    /\ client = ConnectedClient
    /\ consumer = FreshConsumer
    /\ pg = FreshPg

\* the service as startServer leaves it: an empty table, the producer
\* connected
Init ==
    /\ AtRest
    /\ users = {}
    /\ nextId = 1
    /\ now = 0
    /\ jwtExpiry \in 1..MaxTtl
    /\ isConnected = TRUE
    /\ held = Null
    /\ last = Quiet("init", <<>>)
    /\ registered = <<>>

Tick ==
    /\ now < MaxTime
    /\ now' = now + 1
    /\ last' = Quiet("tick", <<>>)
    /\ UNCHANGED <<infra, users, nextId, jwtExpiry, isConnected, held, registered>>

\* POST /register -> UserController.createUser -> UserService.createUser
CreateUser ==
    \E userDto \in CreateDTOs, fault \in FaultsOf(2, isConnected) :
        \E out \in {createUser(users, isConnected, nextId, userDto, now, fault)} :
            /\ out.rows # users => nextId <= MaxUsers
            /\ users' = out.rows
            /\ nextId' = IF out.rows # users THEN nextId + 1 ELSE nextId
            /\ isConnected' = out.conn
            /\ last' = Last("createUser",
                            [email |-> userDto.email],
                            out, UserController_createUser(out))
            /\ registered' = IF out.rows # users
                              THEN Append(registered, userDto.password)
                              ELSE registered
            /\ UNCHANGED <<infra, now, jwtExpiry, held>>

\* PUT /:id -> UserController.updateUser -> UserService.updateUser
UpdateUser ==
    \E id \in Ids, userDto \in UpdateDTOs, fault \in FaultsOf(3, isConnected) :
        \E out \in {updateUser(users, isConnected, id, userDto, now, fault)} :
            /\ users' = out.rows
            /\ isConnected' = out.conn
            /\ last' = Last("updateUser", [id |-> id],
                            out, UserController_updateUser(out))
            /\ UNCHANGED <<infra, nextId, now, jwtExpiry, held, registered>>

\* DELETE /:id -> UserController.deleteUser -> UserService.deleteUser
DeleteUser ==
    \E id \in Ids, fault \in FaultsOf(2, isConnected) :
        \E out \in {deleteUser(users, isConnected, id, now, fault)} :
            /\ users' = out.rows
            /\ isConnected' = out.conn
            /\ last' = Last("deleteUser", [id |-> id],
                            out, UserController_deleteUser(out))
            /\ UNCHANGED <<infra, nextId, now, jwtExpiry, held, registered>>

\* POST /login -> UserController.login -> UserService.login
Login ==
    \E email \in LoginEmails, password \in Passwords,
       fault \in FaultsOf(1, isConnected) :
        \E out \in {login(users, isConnected,
                          [email |-> email, password |-> password],
                          app.jwtSecret, jwtExpiry, now, fault)} :
            /\ app.started
            /\ isConnected' = out.conn
            /\ last' = Last("login", [email |-> email, password |-> password],
                            out, UserController_login(out))
            /\ UNCHANGED <<infra, users, nextId, now, jwtExpiry, held, registered>>

\* the client keeps the token of the login response it has just received
KeepToken ==
    /\ last.op = "login"
    /\ last.ok
    /\ held' = last.value
    /\ UNCHANGED <<infra, users, nextId, now, jwtExpiry, isConnected, last, registered>>

\* UserService.changePassword(id, currentPassword, newPassword)
ChangePassword ==
    \E id \in Ids, currentPassword, newPassword \in Passwords,
       fault \in FaultsOf(2, isConnected) :
        \E out \in {changePassword(users, isConnected, id, currentPassword,
                                  newPassword, now, fault)} :
            /\ users' = out.rows
            /\ isConnected' = out.conn
            /\ last' = Last("changePassword",
                            [id |-> id, currentPassword |-> currentPassword,
                             newPassword |-> newPassword], out, Null)
            /\ UNCHANGED <<infra, nextId, now, jwtExpiry, held, registered>>

\* GET /:id -> UserController.getUserById -> UserService.findById
FindById ==
    \E id \in Ids :
        LET value == serviceFindById(users, id) IN
        /\ last' = [Quiet("findById", <<"repo.findById">>) EXCEPT
                        !.args = [id |-> id], !.value = value,
                        !.resp = UserController_getUserById(value)]
        /\ UNCHANGED <<infra, users, nextId, now, jwtExpiry, isConnected, held, registered>>

\* UserService.findByEmail
FindByEmail ==
    \E email \in Emails :
        LET value == serviceFindByEmail(users, email) IN
        /\ last' = [Quiet("findByEmail", <<"repo.findByEmail">>) EXCEPT
                        !.args = [email |-> email], !.value = value]
        /\ UNCHANGED <<infra, users, nextId, now, jwtExpiry, isConnected, held, registered>>

\* GET / -> UserController.getUsers -> UserService.findAll
FindAll ==
    LET items == serviceFindAll(users) IN
    /\ last' = [Quiet("findAll", <<"repo.findAll">>) EXCEPT
                    !.value = [items |-> items],
                    !.resp = UserController_getUsers(items)]
    /\ UNCHANGED <<infra, users, nextId, now, jwtExpiry, isConnected, held, registered>>

\* a request through AuthMiddleware.authenticate
Authenticate ==
    \E header \in Headers :
        LET a == authenticate(header, app.jwtSecret, now) IN
        /\ app.started
        /\ last' = [Quiet("authenticate", a.calls) EXCEPT
                        !.args = header, !.ok = a.next, !.resp = a.resp,
                        !.user = a.user, !.next = a.next]
        /\ UNCHANGED <<infra, users, nextId, now, jwtExpiry, isConnected, held, registered>>

\* The user service: store, service, controller and producer
Next ==
    \/ CreateUser
    \/ UpdateUser
    \/ DeleteUser
    \/ Login
    \/ ChangePassword
    \/ FindById
    \/ FindByEmail
    \/ FindAll

Spec == Init /\ [][Next]_vars

\* Tokens over time: one registered account, the producer connected as
\* startServer leaves it, a client that keeps the token it is handed
InitAuth ==
    /\ \E userDto \in CreateDTOs :
            /\ users = create({}, 1, userDto).rows
            /\ registered = <<userDto.password>>
    /\ nextId = 2
    /\ now = 0
    /\ jwtExpiry \in 1..MaxTtl
    /\ isConnected = TRUE
    /\ held = Null
    /\ last = Quiet("init", <<>>)
    /\ AtRest

\* the Authorization header of a client of the routes: none, or the token
\* it holds
RouteHeaders ==
    {NoHeader} \cup (IF held = Null THEN {} ELSE {Header("Bearer", 2, held.token)})

\* a request through RoleMiddleware.authenticate and then
\* isResourceOwnerOrAdmin, the resource being owned by user id
OwnerOrAdmin ==
    \E header \in RouteHeaders, id \in Ids :
        LET a == RoleMiddleware_authenticate(header, users, JWT_SECRET, now)
            g == isResourceOwnerOrAdmin(id, a.user)
        IN
        /\ last' = [Quiet("isResourceOwnerOrAdmin", <<>>) EXCEPT
                        !.args = [id |-> id],
                        !.ok = a.next /\ g.next,
                        !.resp = IF a.next THEN g.resp ELSE a.resp,
                        !.user = a.user,
                        !.next = a.next /\ g.next]
        /\ UNCHANGED <<infra, users, nextId, now, jwtExpiry, isConnected, held, registered>>

NextAuth ==
    \/ Tick
    \/ Login
    \/ KeepToken
    \/ Authenticate
    \/ UpdateUser
    \/ DeleteUser
    \/ OwnerOrAdmin

SpecAuth == InitAuth /\ [][NextAuth]_vars

----------------------------------------------------------------------------
(* The routes of setupUserRoutes *)

\* variant: routes that let managers in as well
AdminOrManager == {ADMIN, MANAGER}

\* the role list of the routes under "Admin only routes"
AdminOnly == {ADMIN}

\* router.use(authMiddleware.authenticate) followed by checkRole(roles): the
\* response of the one that refuses, the identity attached, whether the
\* handler is reached
Gate(header, roles, at) ==
    LET a == authenticate(header, JWT_SECRET, at) IN
    IF ~a.next
    THEN [resp |-> a.resp, user |-> Null, next |-> FALSE]
    ELSE LET c == checkRole(roles, a.user) IN
         [resp |-> c.resp, user |-> a.user, next |-> c.next]

\* the faults injected behind the routes: a publish that fails (the store
\* failures of the handlers are exercised by Spec)
RouteFaults == {"none", "kafka.send"}

\* bodies of POST /register sent by the clients of the routes: they all
\* choose the same password
RegisterDTOs == {userDto \in CreateDTOs : userDto.password = "pw1"}

\* a request a middleware answered: the handler did not run
Refused(op, args, g) ==
    [Quiet(op, <<>>) EXCEPT !.args = args, !.ok = FALSE, !.resp = g.resp,
                            !.user = g.user]

\* a request that reached its handler
Served(op, args, out, resp, user) ==
    [Last(op, args, out, resp) EXCEPT !.user = user, !.next = TRUE]

\* POST /register
RegisterRoute ==
    \E userDto \in RegisterDTOs, fault \in RouteFaults :
        \E out \in {createUser(users, isConnected, nextId, userDto, now, fault)} :
            /\ out.rows # users => nextId <= MaxUsers
            /\ users' = out.rows
            /\ nextId' = IF out.rows # users THEN nextId + 1 ELSE nextId
            /\ isConnected' = out.conn
            /\ last' = Last("POST /register", [email |-> userDto.email],
                            out, UserController_createUser(out))
            /\ registered' = IF out.rows # users
                              THEN Append(registered, userDto.password)
                              ELSE registered
            /\ UNCHANGED <<infra, now, jwtExpiry, held>>

\* GET /:id
GetUserRoute ==
    \E header \in RouteHeaders, id \in Ids :
        \E g \in {Gate(header, AdminOnly, now)} :
            /\ last' = IF ~g.next
                       THEN Refused("GET /:id", [id |-> id], g)
                       ELSE [Quiet("GET /:id", <<"repo.findById">>) EXCEPT
                                !.args = [id |-> id],
                                !.value = serviceFindById(users, id),
                                !.resp = UserController_getUserById(
                                             serviceFindById(users, id)),
                                !.user = g.user, !.next = TRUE]
            /\ UNCHANGED <<infra, users, nextId, now, jwtExpiry, isConnected, held, registered>>

\* PUT /:id
PutUserRoute ==
    \E header \in RouteHeaders, id \in Ids, userDto \in UpdateDTOs,
       fault \in RouteFaults :
        \E g \in {Gate(header, AdminOnly, now)} :
            \E out \in {IF g.next
                         THEN updateUser(users, isConnected, id, userDto, now, fault)
                         ELSE NoCall(users, isConnected)} :
                /\ users' = out.rows
                /\ isConnected' = out.conn
                /\ last' = IF ~g.next
                           THEN Refused("PUT /:id", [id |-> id, has |-> userDto.has], g)
                           ELSE Served("PUT /:id", [id |-> id, has |-> userDto.has],
                                       out, UserController_updateUser(out), g.user)
                /\ UNCHANGED <<infra, nextId, now, jwtExpiry, held, registered>>

\* DELETE /:id
DeleteUserRoute ==
    \E header \in RouteHeaders, id \in Ids, fault \in RouteFaults :
        \E g \in {Gate(header, AdminOnly, now)} :
            \E out \in {IF g.next
                         THEN deleteUser(users, isConnected, id, now, fault)
                         ELSE NoCall(users, isConnected)} :
                /\ users' = out.rows
                /\ isConnected' = out.conn
                /\ last' = IF ~g.next
                           THEN Refused("DELETE /:id", [id |-> id], g)
                           ELSE Served("DELETE /:id", [id |-> id], out,
                                       UserController_deleteUser(out), g.user)
                /\ UNCHANGED <<infra, nextId, now, jwtExpiry, held, registered>>

\* POST /change-password
ChangePasswordRoute ==
    \E header \in RouteHeaders, currentPassword, newPassword \in Passwords,
       fault \in RouteFaults :
        \E a \in {authenticate(header, JWT_SECRET, now)} :
            \E h \in {IF a.next
                       THEN UserController_changePassword(a.user, currentPassword,
                                newPassword, users, isConnected, now, fault)
                       ELSE [resp |-> a.resp, out |-> NoCall(users, isConnected)]} :
                /\ users' = h.out.rows
                /\ isConnected' = h.out.conn
                /\ last' = IF ~a.next
                           THEN Refused("POST /change-password",
                                        [currentPassword |-> currentPassword,
                                         newPassword |-> newPassword], a)
                           ELSE Served("POST /change-password",
                                       [currentPassword |-> currentPassword,
                                        newPassword |-> newPassword],
                                       h.out, h.resp, a.user)
                /\ UNCHANGED <<infra, nextId, now, jwtExpiry, held, registered>>

\* The service behind its routes: /register and /login are public, the rest
\* is behind authenticate
NextRoutes ==
    \/ RegisterRoute
    \/ Login
    \/ KeepToken
    \/ GetUserRoute
    \/ PutUserRoute
    \/ DeleteUserRoute
    \/ ChangePasswordRoute

SpecRoutes == Init /\ [][NextRoutes]_vars

----------------------------------------------------------------------------
(* checkRole on its own *)

\* what req.user can be when checkRole runs: nothing (authenticate was not
\* mounted before it), the claims of a token, claims without a role
Identities ==
    {Null}
    \cup {[userId |-> id, email |-> email, role |-> role] :
            id \in Ids, email \in Emails, role \in UserRole}
    \cup {[userId |-> id, email |-> email] : id \in Ids, email \in Emails}

InitGate ==
    /\ users = {}
    /\ nextId = 1
    /\ now = 0
    /\ jwtExpiry \in 1..MaxTtl
    /\ isConnected = TRUE
    /\ held = Null
    /\ last = Quiet("init", <<>>)
    /\ registered = <<>>
    /\ AtRest

\* checkRole(roles) applied to a request
CheckRole ==
    \E roles \in SUBSET UserRole, reqUser \in Identities :
        LET c == checkRole(roles, reqUser) IN
        /\ last' = [Quiet("checkRole", <<>>) EXCEPT
                        !.args = [roles |-> roles], !.ok = c.next,
                        !.resp = c.resp, !.user = reqUser, !.next = c.next]
        /\ UNCHANGED <<infra, users, nextId, now, jwtExpiry, isConnected, held, registered>>

NextGate == CheckRole

SpecGate == InitGate /\ [][NextGate]_vars

----------------------------------------------------------------------------
(* KafkaProducer on its own, one call at a time *)

\* the topics the service publishes on
Topics ==
    {"user.created", "user.updated", "user.deleted", "user.login",
     "user.login.failed", "user.password.changed"}

\* the lists of topic messages handed to sendBatch, by their topics
Batches ==
    UNION {[1..n -> Topics] : n \in 0..MaxBatch}

\* a KafkaProducer after construction
InitKafka ==
    /\ users = {}
    /\ nextId = 1
    /\ now = 0
    /\ jwtExpiry \in 1..MaxTtl
    /\ isConnected = FALSE
    /\ held = Null
    /\ last = Quiet("init", <<>>)
    /\ registered = <<>>
    /\ env = DevEnv
    /\ app = Down
    /\ tasks = NoTasks
    /\ client = FreshClient
    /\ consumer = FreshConsumer
    /\ pg = FreshPg

\* the producer.connect() calls still standing after a call that made
\* `calls` and left the producer in state conn
ConnectsAfter(cl, calls, conn) ==
    IF ~conn THEN FreshClient
    ELSE [connects |-> cl.connects
             + Cardinality({i \in DOMAIN calls : calls[i] = "producer.connect"})]

\* what a call of the producer leaves in `last`
Produced(op, args, r, error) ==
    [Quiet(op, r.calls) EXCEPT !.args = args, !.ok = r.ok, !.error = error]

\* kafkaProducer.connect()
Connect ==
    \E connectOk \in BOOLEAN :
        \E r \in {connect(isConnected, connectOk)} :
            /\ isConnected' = r.conn
            /\ client' = ConnectsAfter(client, r.calls, r.conn)
            /\ last' = Produced("connect", Null, r,
                                IF r.ok THEN "" ELSE "KafkaJSConnectionError")
            /\ UNCHANGED <<users, nextId, now, jwtExpiry, held, registered,
                           env, app, tasks, consumer, pg>>

\* kafkaProducer.disconnect()
Disconnect ==
    \E disconnectOk \in BOOLEAN :
        \E r \in {disconnect(isConnected, disconnectOk)} :
            /\ isConnected' = r.conn
            /\ client' = ConnectsAfter(client, r.calls, r.conn)
            /\ last' = Produced("disconnect", Null, r,
                                IF r.ok THEN "" ELSE "KafkaJSError")
            /\ UNCHANGED <<users, nextId, now, jwtExpiry, held, registered,
                           env, app, tasks, consumer, pg>>

\* kafkaProducer.sendMessage(topic, message)
SendMessage ==
    \E topic \in Topics, connectOk, sendOk \in BOOLEAN :
        \E r \in {sendMessage(isConnected, topic, connectOk, sendOk)} :
            /\ isConnected' = r.conn
            /\ client' = ConnectsAfter(client, r.calls, r.conn)
            /\ last' = Produced("sendMessage", [topic |-> topic], r, r.error)
            /\ UNCHANGED <<users, nextId, now, jwtExpiry, held, registered,
                           env, app, tasks, consumer, pg>>

\* kafkaProducer.sendBatch(topicMessages)
SendBatch ==
    \E topicMessages \in Batches, connectOk, sendOk \in BOOLEAN :
        \E r \in {sendBatch(isConnected, topicMessages, connectOk, sendOk)} :
            /\ isConnected' = r.conn
            /\ client' = ConnectsAfter(client, r.calls, r.conn)
            /\ last' = Produced("sendBatch", [topicMessages |-> topicMessages],
                                r, r.error)
            /\ UNCHANGED <<users, nextId, now, jwtExpiry, held, registered,
                           env, app, tasks, consumer, pg>>

NextKafka ==
    \/ Connect
    \/ Disconnect
    \/ SendMessage
    \/ SendBatch

SpecKafka == InitKafka /\ [][NextKafka]_vars

----------------------------------------------------------------------------
(* KafkaProducer with calls that overlap: a call runs to its next await,   *)
(* the promise it awaits settles in a later step                           *)

\* a call suspended at the await of the kafkajs call `at`
Awaiting(op, at) == [op |-> op, at |-> at]

\* what a step of an asynchronous call leaves in `last`
Stepped(op, t, calls, ok, error) ==
    [Quiet(op, calls) EXCEPT !.args = [task |-> t], !.ok = ok, !.error = error]

\* connect() is called: connected, it returns; not connected, it calls
\* producer.connect() and awaits it
CallConnect ==
    \E t \in Tasks :
        /\ tasks[t] = IdleTask
        /\ IF isConnected
           THEN /\ last' = Stepped("connect", t, <<>>, TRUE, "")
                /\ UNCHANGED <<tasks, client>>
           ELSE /\ tasks' = [tasks EXCEPT ![t] = Awaiting("connect", "producer.connect")]
                /\ client' = [client EXCEPT !.connects = @ + 1]
                /\ last' = Stepped("connect", t, <<"producer.connect">>, TRUE, "")
        /\ UNCHANGED <<users, nextId, now, jwtExpiry, isConnected, held,
                       registered, env, app, consumer, pg>>

\* disconnect() is called: not connected, it returns; connected, it calls
\* producer.disconnect() and awaits it
CallDisconnect ==
    \E t \in Tasks :
        /\ tasks[t] = IdleTask
        /\ IF ~isConnected
           THEN /\ last' = Stepped("disconnect", t, <<>>, TRUE, "")
                /\ UNCHANGED tasks
           ELSE /\ tasks' = [tasks EXCEPT ![t] = Awaiting("disconnect", "producer.disconnect")]
                /\ last' = Stepped("disconnect", t, <<"producer.disconnect">>, TRUE, "")
        /\ UNCHANGED <<users, nextId, now, jwtExpiry, isConnected, held,
                       registered, env, app, client, consumer, pg>>

\* sendMessage or sendBatch is called: not connected, it awaits
\* this.connect(); connected, it calls the send and awaits it
CallSend ==
    \E t \in Tasks, op \in {"sendMessage", "sendBatch"} :
        /\ tasks[t] = IdleTask
        /\ IF isConnected
           THEN /\ tasks' = [tasks EXCEPT ![t] = Awaiting(op, "producer.send")]
                /\ last' = Stepped(op, t, <<"producer.send">>, TRUE, "")
                /\ UNCHANGED client
           ELSE /\ tasks' = [tasks EXCEPT ![t] = Awaiting(op, "producer.connect")]
                /\ client' = [client EXCEPT !.connects = @ + 1]
                /\ last' = Stepped(op, t, <<"producer.connect">>, TRUE, "")
        /\ UNCHANGED <<users, nextId, now, jwtExpiry, isConnected, held,
                       registered, env, app, consumer, pg>>

\* producer.connect() settles: resolved, isConnected becomes true and a
\* sendMessage or sendBatch goes on to its send; rejected, the call throws
SettleConnect ==
    \E t \in Tasks, ok \in BOOLEAN :
        /\ tasks[t].at = "producer.connect"
        /\ IF ok
           THEN /\ isConnected' = TRUE
                /\ UNCHANGED client
                /\ IF tasks[t].op = "connect"
                   THEN /\ tasks' = [tasks EXCEPT ![t] = IdleTask]
                        /\ last' = Stepped("connect", t, <<>>, TRUE, "")
                   ELSE /\ tasks' = [tasks EXCEPT ![t].at = "producer.send"]
                        /\ last' = Stepped(tasks[t].op, t, <<"producer.send">>, TRUE, "")
           ELSE /\ tasks' = [tasks EXCEPT ![t] = IdleTask]
                /\ client' = [client EXCEPT !.connects = @ - 1]
                /\ last' = Stepped(tasks[t].op, t, <<>>, FALSE, "KafkaJSConnectionError")
                /\ UNCHANGED isConnected
        /\ UNCHANGED <<users, nextId, now, jwtExpiry, held, registered,
                       env, app, consumer, pg>>

\* producer.send() or producer.sendBatch() settles
SettleSend ==
    \E t \in Tasks, ok \in BOOLEAN :
        /\ tasks[t].at = "producer.send"
        /\ tasks' = [tasks EXCEPT ![t] = IdleTask]
        /\ last' = Stepped(tasks[t].op, t, <<>>, ok,
                           IF ok THEN "" ELSE "KafkaJSError")
        /\ UNCHANGED <<users, nextId, now, jwtExpiry, isConnected, held,
                       registered, env, app, client, consumer, pg>>

\* producer.disconnect() settles: resolved, isConnected becomes false
SettleDisconnect ==
    \E t \in Tasks, ok \in BOOLEAN :
        /\ tasks[t].at = "producer.disconnect"
        /\ tasks' = [tasks EXCEPT ![t] = IdleTask]
        /\ isConnected' = IF ok THEN FALSE ELSE isConnected
        /\ client' = IF ok THEN FreshClient ELSE client
        /\ last' = Stepped("disconnect", t, <<>>, ok,
                           IF ok THEN "" ELSE "KafkaJSError")
        /\ UNCHANGED <<users, nextId, now, jwtExpiry, held, registered,
                       env, app, consumer, pg>>

NextOverlap ==
    \/ CallConnect
    \/ CallDisconnect
    \/ CallSend
    \/ SettleConnect
    \/ SettleSend
    \/ SettleDisconnect

SpecOverlap == InitKafka /\ [][NextOverlap]_vars

----------------------------------------------------------------------------
(* KafkaConsumer: handlers are added, messages arrive one after another *)

ConsumerTopics == {"user.created", "user.updated"}

\* addTopicHandler(topic, handler)
AddTopicHandler ==
    \E topic \in ConsumerTopics :
        /\ consumer' = [consumer EXCEPT !.eventHandlers = @ \cup {topic}]
        /\ last' = [Quiet("addTopicHandler", <<>>) EXCEPT !.args = [topic |-> topic]]
        /\ UNCHANGED <<users, nextId, now, jwtExpiry, isConnected, held,
                       registered, env, app, tasks, client, pg>>

\* the run loop of kafkajs hands the next message to processMessage; the
\* handler of its topic resolves or throws
ProcessMessage ==
    \E topic \in ConsumerTopics, value \in MessageValues, handlerOk \in BOOLEAN :
        \E r \in {processMessage(consumer.eventHandlers, topic, value, handlerOk)} :
            /\ consumer.consumed < MaxMessages
            /\ consumer' = [consumer EXCEPT !.handled = @ \o r.handled,
                                            !.logged = @ + r.logged,
                                            !.consumed = @ + 1]
            /\ last' = [Quiet("processMessage", <<>>) EXCEPT
                            !.args = [topic |-> topic, value |-> value,
                                      handlerOk |-> handlerOk],
                            !.ok = ~r.threw]
            /\ UNCHANGED <<users, nextId, now, jwtExpiry, isConnected, held,
                           registered, env, app, tasks, client, pg>>

NextConsumer ==
    \/ AddTopicHandler
    \/ ProcessMessage

SpecConsumer == InitKafka /\ [][NextConsumer]_vars

----------------------------------------------------------------------------
(* createUser and updateUser calls that overlap: each call runs to its     *)
(* next repository await, the query runs in a later step                   *)

\* bodies of the overlapping POST /register calls
RaceCreateDTOs == {userDto \in RegisterDTOs : userDto.has = {}}

\* bodies of the overlapping PUT /:id calls: a new e-mail address
RaceUpdateDTOs == {userDto \in UpdateDTOs : userDto.has = {"email"}}

\* a createUser or updateUser suspended at the await of the repository
\* call `at`
Suspended(op, at, id, userDto, calls) ==
    [op |-> op, at |-> at, id |-> id, userDto |-> userDto, calls |-> calls]

\* a step of a call that has not returned yet
Pending(op, t, email, calls) ==
    [Quiet(op, calls) EXCEPT !.args = [task |-> t, email |-> email],
                             !.ok = FALSE]

\* a step in which the call returns or throws
Returned(op, t, email, out) ==
    Last(op, [task |-> t, email |-> email], out, Null)

\* createUser from `await this.userRepository.create(userDto)` on
createUserFromCreate(rows, conn, id, userDto, at) ==
    LET c1 == <<"repo.findByEmail", "repo.create">>
        ins == create(rows, id, userDto)
    IN
    IF ~ins.ok
    THEN Throw(ins.error, rows, conn, c1, Null)
    ELSE
    LET newUser == ins.row
        event == [topic |-> "user.created",
                  message |-> [id |-> newUser.id, email |-> newUser.email,
                               role |-> newUser.role, timestamp |-> at]]
        pub == sendMessage(conn, "user.created", TRUE, TRUE)
    IN  Outcome(TRUE, "", toDTO(newUser), ins.rows, pub.conn,
                c1 \o pub.calls, event)

\* updateUser from `await this.userRepository.update(id, userDto)` on
updateUserFromUpdate(rows, conn, id, userDto, calls, at) ==
    LET c2 == calls \o <<"repo.update">>
        upd == update(rows, id, userDto)
    IN
    IF ~upd.ok
    THEN Throw(upd.error, rows, conn, c2, Null)
    ELSE IF upd.row = Null
    THEN Outcome(TRUE, "", Null, upd.rows, conn, c2, Null)
    ELSE
    LET updatedUser == upd.row
        event == [topic |-> "user.updated",
                  message |-> [userId |-> updatedUser.id,
                               email |-> updatedUser.email,
                               role |-> updatedUser.role,
                               isActive |-> updatedUser.isActive,
                               timestamp |-> at]]
        pub == sendMessage(conn, "user.updated", TRUE, TRUE)
    IN  Outcome(TRUE, "", toDTO(updatedUser), upd.rows, pub.conn,
                c2 \o pub.calls, event)

\* createUser is called: findByEmail runs; the address taken, the call
\* throws, otherwise it goes on to await userRepository.create
BeginCreate ==
    \E t \in Tasks, userDto \in RaceCreateDTOs :
        /\ tasks[t] = IdleTask
        /\ IF findByEmail(users, userDto.email) # Null
           THEN /\ last' = Returned("createUser", t, userDto.email,
                                    Throw("Email already exists", users, isConnected,
                                          <<"repo.findByEmail">>, Null))
                /\ UNCHANGED tasks
           ELSE /\ tasks' = [tasks EXCEPT ![t] =
                                Suspended("createUser", "repo.create", 0, userDto,
                                          <<"repo.findByEmail">>)]
                /\ last' = Pending("createUser", t, userDto.email,
                                   <<"repo.findByEmail">>)
        /\ UNCHANGED <<users, nextId, now, jwtExpiry, isConnected, held,
                       registered, env, app, client, consumer, pg>>

\* the INSERT of a suspended createUser runs, and the call publishes and
\* returns, or throws the error of the INSERT
FinishCreate ==
    \E t \in Tasks :
        /\ tasks[t].at = "repo.create"
        /\ \E out \in {createUserFromCreate(users, isConnected, nextId,
                                             tasks[t].userDto, now)} :
            /\ out.rows # users => nextId <= MaxUsers
            /\ users' = out.rows
            /\ nextId' = IF out.rows # users THEN nextId + 1 ELSE nextId
            /\ registered' = IF out.rows # users
                              THEN Append(registered, tasks[t].userDto.password)
                              ELSE registered
            /\ last' = Returned("createUser", t, tasks[t].userDto.email, out)
        /\ tasks' = [tasks EXCEPT ![t] = IdleTask]
        /\ UNCHANGED <<now, jwtExpiry, isConnected, held, env, app, client,
                       consumer, pg>>

\* updateUser is called: findById runs; no such user, the call throws;
\* a new address, it goes on to await findByEmail, otherwise to await
\* userRepository.update
BeginUpdate ==
    \E t \in Tasks, id \in Ids, userDto \in RaceUpdateDTOs :
        /\ tasks[t] = IdleTask
        /\ LET existingUser == findById(users, id) IN
           IF existingUser = Null
           THEN /\ last' = Returned("updateUser", t, userDto.email,
                                    Throw("User not found", users, isConnected,
                                          <<"repo.findById">>, Null))
                /\ UNCHANGED tasks
           ELSE /\ tasks' = [tasks EXCEPT ![t] =
                                Suspended("updateUser",
                                          IF userDto.email # existingUser.email
                                          THEN "repo.findByEmail" ELSE "repo.update",
                                          id, userDto, <<"repo.findById">>)]
                /\ last' = Pending("updateUser", t, userDto.email,
                                   <<"repo.findById">>)
        /\ UNCHANGED <<users, nextId, now, jwtExpiry, isConnected, held,
                       registered, env, app, client, consumer, pg>>

\* the findByEmail of a suspended updateUser runs
CheckUpdate ==
    \E t \in Tasks :
        /\ tasks[t].op = "updateUser"
        /\ tasks[t].at = "repo.findByEmail"
        /\ LET calls == tasks[t].calls \o <<"repo.findByEmail">> IN
           IF findByEmail(users, tasks[t].userDto.email) # Null
           THEN /\ last' = Returned("updateUser", t, tasks[t].userDto.email,
                                    Throw("Email already exists", users,
                                          isConnected, calls, Null))
                /\ tasks' = [tasks EXCEPT ![t] = IdleTask]
           ELSE /\ tasks' = [tasks EXCEPT ![t].at = "repo.update",
                                          ![t].calls = calls]
                /\ last' = Pending("updateUser", t, tasks[t].userDto.email, calls)
        /\ UNCHANGED <<users, nextId, now, jwtExpiry, isConnected, held,
                       registered, env, app, client, consumer, pg>>

\* the UPDATE of a suspended updateUser runs, and the call publishes and
\* returns, or throws the error of the UPDATE
FinishUpdate ==
    \E t \in Tasks :
        /\ tasks[t].at = "repo.update"
        /\ \E out \in {updateUserFromUpdate(users, isConnected, tasks[t].id,
                                             tasks[t].userDto, tasks[t].calls, now)} :
            /\ users' = out.rows
            /\ last' = Returned("updateUser", t, tasks[t].userDto.email, out)
        /\ tasks' = [tasks EXCEPT ![t] = IdleTask]
        /\ UNCHANGED <<nextId, now, jwtExpiry, isConnected, held, registered,
                       env, app, client, consumer, pg>>

NextRace ==
    \/ BeginCreate
    \/ FinishCreate
    \/ BeginUpdate
    \/ CheckUpdate
    \/ FinishUpdate

SpecRace == Init /\ [][NextRace]_vars

----------------------------------------------------------------------------
(* shared/db: the singleton of client.ts and the transactions run on the   *)
(* clients it hands out                                                    *)

\* the PostgresClient instances constructed so far
Clients == 1..pg.made

\* the instances on which close() was called: their pool is ending or ended
Ended == pg.closing \cup pg.closed

\* the failures a transaction on client c can meet, with the outcome of the
\* ROLLBACK where one is sent: a pool that was ended rejects connect
TxFaults(c) ==
    {f \in [fails : TxFailures, rollbackOk : BOOLEAN] :
        /\ c \in Ended => f.fails = "pool.connect"
        /\ f.fails \in {"none", "pool.connect"} => f.rollbackOk}

\* getPostgresClient()
GetPostgresClient ==
    /\ pg.postgresClient = 0 => pg.made < MaxClients
    /\ pg' = IF pg.postgresClient = 0
             THEN [pg EXCEPT !.postgresClient = pg.made + 1, !.made = pg.made + 1]
             ELSE pg
    /\ last' = [Quiet("getPostgresClient", <<>>) EXCEPT
                    !.value = [client |-> pg'.postgresClient]]
    /\ UNCHANGED <<users, nextId, now, jwtExpiry, isConnected, held,
                   registered, env, app, tasks, client, consumer>>

\* closePostgresClient() is called: no singleton, it returns; otherwise it
\* calls close() on it and awaits
CallClose ==
    \E t \in Tasks :
        /\ tasks[t] = IdleTask
        /\ IF pg.postgresClient = 0
           THEN /\ last' = Stepped("closePostgresClient", t, <<>>, TRUE, "")
                /\ UNCHANGED <<tasks, pg>>
           ELSE /\ tasks' = [tasks EXCEPT ![t] =
                                [op |-> "closePostgresClient",
                                 at |-> "postgresClient.close",
                                 client |-> pg.postgresClient,
                                 again |-> pg.postgresClient \in Ended]]
                /\ pg' = [pg EXCEPT !.closing = @ \cup {pg.postgresClient}]
                /\ last' = Stepped("closePostgresClient", t,
                                   <<"postgresClient.close">>, FALSE, "")
        /\ UNCHANGED <<users, nextId, now, jwtExpiry, isConnected, held,
                       registered, env, app, client, consumer>>

\* close() settles: pool.end() resolved, postgresClient is set to null;
\* rejected (as pg does for an end() called again on the same pool), the
\* call throws and postgresClient is left as it is
SettleClose ==
    \E t \in Tasks, ok \in BOOLEAN :
        /\ tasks[t].at = "postgresClient.close"
        /\ tasks[t].again => ~ok
        /\ tasks' = [tasks EXCEPT ![t] = IdleTask]
        /\ pg' = IF ok
                 THEN [pg EXCEPT !.postgresClient = 0,
                                 !.closing = @ \ {tasks[t].client},
                                 !.closed = @ \cup {tasks[t].client}]
                 ELSE pg
        /\ last' = Stepped("closePostgresClient", t, <<>>, ok,
                           IF ok THEN "" ELSE "PoolError")
        /\ UNCHANGED <<users, nextId, now, jwtExpiry, isConnected, held,
                       registered, env, app, client, consumer>>

\* client.transaction(callback) on one of the clients handed out
Transaction ==
    \E c \in Clients :
        \E f \in TxFaults(c) :
            \E r \in {transaction(f.fails, f.rollbackOk, [rows |-> 1])} :
                /\ last' = [Quiet("transaction", r.queries) EXCEPT
                                !.args = [client |-> c, fails |-> f.fails,
                                          acquired |-> r.acquired,
                                          released |-> r.released],
                                !.ok = r.ok, !.error = r.error,
                                !.value = r.value]
                /\ UNCHANGED <<users, nextId, now, jwtExpiry, isConnected, held,
                               registered, env, app, tasks, client, consumer, pg>>

NextPg ==
    \/ GetPostgresClient
    \/ CallClose
    \/ SettleClose
    \/ Transaction

SpecPg == InitKafka /\ [][NextPg]_vars

----------------------------------------------------------------------------
(* Start-up: app.ts and startServer *)

\* the environments the service is started in
Envs ==
    [NODE_ENV : {"production", "development"},
     JWT_SECRET : {Unset, "", "s3cret"}]

\* before the process starts: one account in the table, the producer
\* constructed and not connected
InitBoot ==
    /\ \E userDto \in RegisterDTOs :
            /\ users = create({}, 1, userDto).rows
            /\ registered = <<userDto.password>>
    /\ nextId = 2
    /\ now = 0
    /\ jwtExpiry \in 1..MaxTtl
    /\ isConnected = FALSE
    /\ held = Null
    /\ last = Quiet("init", <<>>)
    /\ env \in Envs
    /\ app = Down
    /\ tasks = NoTasks
    /\ client = FreshClient
    /\ consumer = FreshConsumer
    /\ pg = FreshPg

\* startServer(): userRepository.initialize(), kafkaProducer.connect(),
\* app.listen; an error of the first two ends the process with exit(1)
StartServer ==
    /\ app = Down
    /\ \E initOk, connectOk \in BOOLEAN :
        LET c == IF initOk THEN connect(isConnected, connectOk)
                 ELSE [ok |-> FALSE, conn |-> isConnected, calls |-> <<>>]
        IN
        /\ app' = IF c.ok THEN Up(env) ELSE [Down EXCEPT !.exited = TRUE]
        /\ isConnected' = c.conn
        /\ client' = IF c.ok THEN ConnectedClient ELSE FreshClient
        /\ last' = [Quiet("startServer",
                          <<"userRepository.initialize">> \o c.calls)
                        EXCEPT !.ok = c.ok]
    /\ UNCHANGED <<users, nextId, now, jwtExpiry, held, registered,
                   env, tasks, consumer, pg>>

NextBoot ==
    \/ StartServer
    \/ Login
    \/ KeepToken
    \/ Authenticate

SpecBoot == InitBoot /\ [][NextBoot]_vars

----------------------------------------------------------------------------
(* Properties *)

\* the collaborator call x is among the calls of the last handler
Called(x) == \E i \in DOMAIN last.calls : last.calls[i] = x

\* the account that holds e-mail address e, or Null
Holder(e) == findByEmail(users, e)

\* the last call is a login for an account that is registered, holds the
\* e-mail address given, and is active
LoginOfActive ==
    /\ last.op = "login"
    /\ Holder(last.args.email) # Null
    /\ Holder(last.args.email).isActive

\* C1: once createUser has succeeded for an e-mail address and a password,
\* and while the account stays active, a login with that address and that
\* password succeeds and answers with a token; and authenticate, given that
\* token before it expires, attaches an identity whose userId and role are
\* those of the stored user.
C1_RegisteredLoginSucceeds ==
    /\ ( /\ LoginOfActive
         /\ last.args.password = registered[Holder(last.args.email).id]
         /\ last.error # StorageError )
       => /\ last.ok
          /\ last.resp.status = 200
          /\ last.value.token.userId = Holder(last.args.email).id
          /\ last.value.token.role = Holder(last.args.email).role
    /\ ( /\ last.op = "authenticate"
         /\ held # Null
         /\ last.args = Header("Bearer", 2, held.token)
         /\ now < held.token.exp )
       => /\ last.next
          /\ last.user # Null
          /\ last.user.userId = held.user.id
          /\ last.user.role = held.user.role

LoginNow(email, password) ==
    login(users, isConnected, [email |-> email, password |-> password],
          JWT_SECRET, jwtExpiry, now, "none")

\* C3: when changePassword(id, current, new) succeeds, the stored credential
\* of that user is a hash of the new password: a login with the new
\* password then succeeds and, the two being different, a login with the
\* old one fails.
C3_ChangedPasswordIsStored ==
    (last.op = "changePassword" /\ last.ok) =>
        LET user == findById(users, last.args.id) IN
        /\ user # Null
        /\ bcrypt_compare(last.args.newPassword, user.passwordHash)
        /\ user.isActive =>
              /\ LoginNow(user.email, last.args.newPassword).ok
              /\ last.args.newPassword # last.args.currentPassword
                    => ~LoginNow(user.email, last.args.currentPassword).ok

\* C4: a failure to publish an event never fails the operation that raised
\* it: when the primary step of createUser, updateUser, deleteUser, login
\* or changePassword went through and only the publish failed, the caller
\* still gets the success.
C4_PublishFailureIsSwallowed ==
    ( /\ last.op \in {"createUser", "updateUser", "deleteUser", "login",
                      "changePassword"}
      /\ last.pub = "failed"
      /\ last.event.topic # "user.login.failed" )
    => /\ last.ok
       /\ last.resp # Null => last.resp.status < 400

\* C5: a login for an account whose isActive is false fails whatever the
\* password is: the password is not compared, no token is signed, no event
\* (user.login.failed included) is published, and the caller gets a 401.
C5_InactiveLoginFails ==
    ( /\ last.op = "login"
      /\ Holder(last.args.email) # Null
      /\ ~Holder(last.args.email).isActive )
    => /\ ~last.ok
       /\ last.value = Null
       /\ last.resp.status = 401
       /\ ~Called("bcrypt.compare")
       /\ ~Called("jwt.sign")
       /\ last.pub = "none"
       /\ last.event = Null

C5_Witness ==
    /\ last.op = "login"
    /\ Holder(last.args.email) # Null
    /\ ~Holder(last.args.email).isActive
    /\ last.args.password = registered[Holder(last.args.email).id]
    /\ last.error = "User account is disabled"

\* why a login with the given pair fails on the present table
FailureCause(email, password) ==
    IF Holder(email) = Null THEN "unknown e-mail"
    ELSE IF ~Holder(email).isActive THEN "inactive account"
    ELSE IF password # registered[Holder(email).id] THEN "wrong password"
    ELSE "none"

\* C6: the caller of POST /login cannot tell an unknown e-mail address, a
\* wrong password and an inactive account apart: the response to a failed
\* login is the response every other failing login gets, whatever its cause.
C6_LoginFailuresLookAlike ==
    (last.op = "login" /\ ~last.ok) =>
        \A email \in LoginEmails, password \in Passwords :
            FailureCause(email, password) # "none" =>
                /\ ~LoginNow(email, password).ok
                /\ UserController_login(LoginNow(email, password)) = last.resp

C6_Witness ==
    /\ last.op = "login"
    /\ ~last.ok
    /\ FailureCause(last.args.email, last.args.password) = "inactive account"
    /\ \E e1, e2 \in LoginEmails, p \in Passwords :
          /\ FailureCause(e1, p) = "unknown e-mail"
          /\ FailureCause(e2, p) = "wrong password"

\* the records a value hands to the caller: the value itself, the user of a
\* login response, the items of a listing
Views(v) ==
    IF v = Null THEN {}
    ELSE {v} \cup (IF "user" \in DOMAIN v THEN {v.user} ELSE {})
             \cup (IF "items" \in DOMAIN v THEN v.items ELSE {})

C8_DuplicateEmailRejected ==
    [][ ( /\ last'.op = "createUser"
          /\ \E u \in users : u.email = last'.args.email
          /\ last'.error # StorageError )
        => /\ ~last'.ok
           /\ last'.error = "Email already exists"
           /\ last'.resp.status = 400
           /\ \A i \in DOMAIN last'.calls : last'.calls[i] # "repo.create"
           /\ last'.pub = "none"
           /\ last'.event = Null
           /\ users' = users
           /\ Cardinality({u \in users' : u.email = last'.args.email}) = 1
      ]_vars

C8_Witness ==
    /\ last.op = "createUser"
    /\ last.error = "Email already exists"
    /\ Cardinality({u \in users : u.email = last.args.email}) = 1

\* C9: changePassword with a current password that does not verify against
\* the stored hash (the store answering) fails with the wrong-current-
\* password error: nothing is hashed, the store's update is not called, no
\* event is published, the table is unchanged, and the same call made again
\* fails the same way on the same table.
C9_WrongCurrentPasswordRejected ==
    [][ ( /\ last'.op = "changePassword"
          /\ findById(users, last'.args.id) # Null
          /\ findById(users, last'.args.id).passwordHash
                # bcrypt_hash(last'.args.currentPassword, SaltRounds)
          /\ last'.error # StorageError )
        => /\ ~last'.ok
           /\ last'.error = "Current password is incorrect"
           /\ \A i \in DOMAIN last'.calls :
                 last'.calls[i] \notin {"bcrypt.hash", "repo.update"}
           /\ last'.pub = "none"
           /\ last'.event = Null
           /\ users' = users
           /\ LET again == changePassword(users', isConnected', last'.args.id,
                                          last'.args.currentPassword,
                                          last'.args.newPassword, now', "none")
              IN  /\ ~again.ok
                  /\ again.error = last'.error
                  /\ again.calls = last'.calls
                  /\ again.rows = users'
      ]_vars

C9_Witness ==
    /\ last.op = "changePassword"
    /\ last.error = "Current password is incorrect"
    /\ findById(users, last.args.id) # Null
    /\ ~bcrypt_compare(last.args.currentPassword,
                       findById(users, last.args.id).passwordHash)

\* the last call is authenticate, given the token the client holds in a
\* well-formed Bearer header
AuthenticateHeld ==
    /\ last.op = "authenticate"
    /\ held # Null
    /\ last.args = Header("Bearer", 2, held.token)

\* the identity attached to the request is that of the login response
IdentityOfHeld ==
    /\ last.next
    /\ last.resp = Null
    /\ last.user # Null
    /\ last.user.userId = held.user.id
    /\ last.user.email = held.user.email
    /\ last.user.role = held.user.role

\* the request is answered 401 and goes no further
Rejected401 ==
    /\ ~last.next
    /\ last.user = Null
    /\ last.resp # Null
    /\ last.resp.status = 401

BearerForm(header) ==
    /\ header.present
    /\ header.nparts = 2
    /\ header.scheme = "Bearer"

\* C11: authenticate answers 401, does not call next and attaches no
\* identity for every request whose Authorization header is missing or is
\* not of the form 'Bearer <token>', and it does not attempt to verify a
\* token for such a request.
C11_NoBearerNoVerification ==
    (last.op = "authenticate" /\ ~BearerForm(last.args)) =>
        /\ Rejected401
        /\ ~Called("jwt.verify")

C11_Witness ==
    /\ last.op = "authenticate"
    /\ held # Null
    /\ now < held.token.exp
    /\ last.args = Header("Basic", 2, held.token)
    /\ Rejected401
    /\ last.calls = <<>>

\* C12: every failure to verify the token (expired, malformed, bad
\* signature) makes authenticate answer 401, and the 401 responses of two
\* requests that differ only in why verification failed are identical.
C12_VerifyFailuresLookAlike ==
    (last.op = "authenticate" /\ Called("jwt.verify") /\ ~last.next) =>
        /\ Rejected401
        /\ \A header \in Headers :
              (BearerForm(header) /\ ~authenticate(header, JWT_SECRET, now).next)
                  => authenticate(header, JWT_SECRET, now).resp = last.resp

UserRouteRequest ==
    last.op \in {"GET /:id", "PUT /:id", "DELETE /:id"}

\* the request went no further than the middleware: the handler did not run
HandlerNotRun ==
    /\ ~last.next
    /\ last.calls = <<>>
    /\ last.value = Null
    /\ last.event = Null

\* C15 as stated: the handlers of GET /:id, PUT /:id and DELETE /:id run
\* only for an authenticated caller whose role is admin or manager; such a
\* caller is let through, and a caller whose role is user is answered 403
\* without the handler being run.
C15_AdminOrManagerGated ==
    UserRouteRequest =>
        /\ last.next => (last.user # Null /\ RoleOf(last.user) \in {ADMIN, MANAGER})
        /\ (last.user # Null /\ RoleOf(last.user) \in {ADMIN, MANAGER}) => last.next
        /\ (last.user # Null /\ RoleOf(last.user) = USER) =>
              (last.resp.status = 403 /\ HandlerNotRun)

\* C15: the handlers of GET /:id, PUT /:id and DELETE /:id run only for an
\* authenticated caller whose role is admin; such a caller is let through,
\* a caller whose role is manager or user is answered 403 and a caller
\* without a valid token 401, and in both cases the handler is not run.
C15_AdminGated ==
    UserRouteRequest =>
        /\ last.next <=> (last.user # Null /\ RoleOf(last.user) = ADMIN)
        /\ (last.user # Null /\ RoleOf(last.user) \in {MANAGER, USER}) =>
              (last.resp.status = 403 /\ HandlerNotRun)
        /\ last.user = Null => (last.resp.status = 401 /\ HandlerNotRun)

C15_Witness ==
    /\ last.op = "PUT /:id"
    /\ last.user # Null
    /\ RoleOf(last.user) = MANAGER
    /\ findById(users, last.args.id) # Null
    /\ last.resp.status = 403
    /\ HandlerNotRun

\* C19: the isActive of a user changes only through an update of that user
\* that carries isActive and is made by a caller with admin or manager
\* privilege; every other request (register, login, change-password, get,
\* an update without isActive, an update or delete of another user) leaves
\* the isActive of every existing user as it was.
C19_IsActiveFrame ==
    [][ \A u \in users : \A v \in users' :
            (v.id = u.id /\ v.isActive # u.isActive) =>
                /\ last'.op = "PUT /:id"
                /\ last'.next
                /\ last'.args.id = u.id
                /\ "isActive" \in last'.args.has
                /\ last'.user # Null
                /\ RoleOf(last'.user) \in {ADMIN, MANAGER}
      ]_vars

C19_Witness ==
    /\ last.op = "PUT /:id"
    /\ last.next
    /\ "isActive" \in last.args.has
    /\ RoleOf(last.user) = ADMIN
    /\ last.user.userId # last.args.id
    /\ findById(users, last.args.id) # Null
    /\ ~findById(users, last.args.id).isActive
    /\ \E u \in users : u.id # last.args.id /\ u.isActive

\* C20: a POST /change-password that passed authenticate with a valid token
\* for subject s calls changePassword for s, the id carried by the token,
\* and is answered 200 when the current password is correct and 400 when it
\* is not (the publish not failing); 401 is answered only when the request
\* carries no valid identity.
C20_ChangePasswordOfSubject ==
    last.op = "POST /change-password" =>
        /\ last.resp.status = 401 => last.user = Null
        /\ (last.user # Null /\ findById(users, last.user.userId) # Null
                /\ last.pub # "failed") =>
              /\ Called("repo.findById")
              /\ last.resp.status =
                    IF bcrypt_compare(last.args.currentPassword,
                           findById(users, last.user.userId).passwordHash)
                    THEN 200 ELSE 400

\* the last call went through RoleMiddleware.authenticate, which attached an
\* identity, and then through isResourceOwnerOrAdmin
OwnerCheckOfAuthenticated ==
    /\ last.op = "isResourceOwnerOrAdmin"
    /\ last.user # Null

\* the caller owns the resource or has the role admin or manager
OwnerOrPrivileged ==
    \/ last.user.id = last.args.id
    \/ last.user.role \in {ADMIN, MANAGER}

Publishes ==
    {i \in DOMAIN last.calls :
        \E topic \in Topics : last.calls[i] = "producer.send:" \o topic}

\* C17: a login that fails because the password does not match and a login
\* that fails because no user has the e-mail address given (the store
\* answering) both publish exactly one user.login.failed event that carries
\* the address tried.
C17_FailedLoginIsPublished ==
    ( /\ last.op = "login"
      /\ last.error # StorageError
      /\ FailureCause(last.args.email, last.args.password)
            \in {"unknown e-mail", "wrong password"} )
    => /\ Cardinality(Publishes) = 1
       /\ \A i \in Publishes : last.calls[i] = "producer.send:user.login.failed"
       /\ last.event # Null
       /\ last.event.topic = "user.login.failed"
       /\ last.event.message.email = last.args.email

\* C17 as the code has it: a login that fails because the password does not
\* match publishes exactly one user.login.failed event that carries the
\* address tried; a login that fails because no user has the address given
\* throws 'Invalid email or password' and publishes nothing.
C17_WrongPasswordIsPublished ==
    (last.op = "login" /\ last.error # StorageError) =>
        /\ FailureCause(last.args.email, last.args.password) = "wrong password" =>
              /\ Cardinality(Publishes) = 1
              /\ \A i \in Publishes :
                    last.calls[i] = "producer.send:user.login.failed"
              /\ last.event # Null
              /\ last.event.topic = "user.login.failed"
              /\ last.event.message.email = last.args.email
        /\ FailureCause(last.args.email, last.args.password) = "unknown e-mail" =>
              /\ Publishes = {}
              /\ last.event = Null
              /\ last.error = "Invalid email or password"

C17_Witness ==
    /\ last.op = "login"
    /\ FailureCause(last.args.email, last.args.password) = "wrong password"
    /\ last.error = "Invalid email or password"
    /\ last.calls = <<"repo.findByEmail", "bcrypt.compare",
                      "producer.send:user.login.failed">>
    /\ last.event.message.email = last.args.email

\* the topic of each operation and the store call it publishes after
TopicOf ==
    [createUser     |-> "user.created",
     updateUser     |-> "user.updated",
     deleteUser     |-> "user.deleted",
     login          |-> "user.login",
     changePassword |-> "user.password.changed"]

StoreStepOf ==
    [createUser     |-> "repo.create",
     updateUser     |-> "repo.update",
     deleteUser     |-> "repo.delete",
     login          |-> "repo.findByEmail",
     changePassword |-> "repo.update"]

\* the errors of an operation rejected for not-found, duplicate e-mail
\* address or incorrect current password
Rejections ==
    {"User not found", "Email already exists", "Current password is incorrect"}

\* C18: every createUser, updateUser, deleteUser, login and changePassword
\* that succeeds attempts exactly one publish, on the topic of the
\* operation, and after its store step; one that is rejected for not-found,
\* duplicate e-mail address or incorrect current password attempts no
\* publish and no store write.
C18_OnePublishPerOperation ==
    last.op \in DOMAIN TopicOf =>
        /\ last.ok =>
              /\ Cardinality(Publishes) = 1
              /\ \A i \in Publishes :
                    /\ last.calls[i] = "producer.send:" \o TopicOf[last.op]
                    /\ \E j \in 1..(i - 1) : last.calls[j] = StoreStepOf[last.op]
              /\ last.event.topic = TopicOf[last.op]
              /\ last.pub = "sent"
        /\ last.error \in Rejections =>
              /\ Publishes = {}
              /\ last.pub = "none"
              /\ \A i \in DOMAIN last.calls :
                    last.calls[i] \notin {"repo.create", "repo.update", "repo.delete"}

C18_Witness ==
    /\ last.op = "updateUser"
    /\ last.ok
    /\ last.calls = <<"repo.findById", "repo.findByEmail", "repo.update",
                      "producer.send:user.updated">>

\* the request carries an identity whose role is in the allowed list
HasAllowedRole ==
    /\ last.user # Null
    /\ "role" \in DOMAIN last.user
    /\ last.user.role \in last.args.roles

\* C13: for every list of allowed roles and every request, checkRole calls
\* next if and only if the request carries an identity whose role is in the
\* list; it answers 401 when no identity is attached and 403 when the
\* identity has no role or a role that is not in the list, and in both cases
\* it does not call next.
C13_CheckRole ==
    last.op = "checkRole" =>
        /\ last.next <=> HasAllowedRole
        /\ last.next => last.resp = Null
        /\ last.user = Null => (last.resp.status = 401 /\ ~last.next)
        /\ (last.user # Null /\ ~HasAllowedRole) =>
              (last.resp.status = 403 /\ ~last.next)

C13_Witness ==
    /\ last.op = "checkRole"
    /\ last.user # Null
    /\ "role" \notin DOMAIN last.user
    /\ last.args.roles = UserRole
    /\ last.resp.status = 403
    /\ ~last.next

\* the process runs in production mode and no signing secret is configured
ProductionWithoutSecret ==
    /\ env.NODE_ENV = "production"
    /\ env.JWT_SECRET \in {Unset, ""}

\* C21: in production mode with no signing secret configured the service
\* does not start, and no token is signed or verified with the built-in
\* default secret.
C21_NoDefaultSecretInProduction ==
    ProductionWithoutSecret =>
        /\ ~app.started
        /\ ~(Called("jwt.sign") /\ app.jwtSecret = JWT_SECRET)
        /\ ~(Called("jwt.verify") /\ app.jwtSecret = JWT_SECRET)

\* C22: when a store call fails during an operation, login included, the
\* operation ends with no event published and no token issued, and the
\* caller gets a 5xx response, never a 401 and never a success.
C22_StoreFailureIs5xx ==
    last.error = StorageError =>
        /\ ~last.ok
        /\ last.event = Null
        /\ last.pub = "none"
        /\ last.value = Null
        /\ last.resp # Null => last.resp.status \in 500..599

\* C23: connect while the producer is connected and disconnect while it is
\* not make no call to the kafkajs producer; a connect whose
\* producer.connect() fails throws the error and leaves the producer not
\* connected.
C23_ConnectDisconnectGuarded ==
    [][ /\ (last'.op = "connect" /\ isConnected) =>
              (last'.calls = <<>> /\ last'.ok /\ isConnected')
        /\ (last'.op = "disconnect" /\ ~isConnected) =>
              (last'.calls = <<>> /\ last'.ok /\ ~isConnected')
        /\ (last'.op = "connect" /\ ~isConnected) =>
              /\ last'.calls = <<"producer.connect">>
              /\ last'.ok <=> isConnected'
              /\ ~last'.ok => last'.error = "KafkaJSConnectionError"
      ]_vars

C23_Witness ==
    /\ last.op = "connect"
    /\ last.calls = <<>>
    /\ last.ok
    /\ isConnected
    /\ client.connects = 1

\* a call of the kafkajs producer that sends
IsSend(call) ==
    \/ call = "producer.sendBatch"
    \/ \E topic \in Topics : call = "producer.send:" \o topic

\* C24: sendMessage and sendBatch call the send of the kafkajs producer only
\* when the producer is connected: not connected, they connect first; when
\* that connect fails nothing is sent and the error is thrown; when the send
\* fails the error is thrown and the producer stays connected.
C24_SendOnlyWhenConnected ==
    [][ last'.op \in {"sendMessage", "sendBatch"} =>
          /\ ~isConnected =>
                (last'.calls # <<>> /\ last'.calls[1] = "producer.connect")
          /\ \A i \in DOMAIN last'.calls :
                IsSend(last'.calls[i]) =>
                    /\ isConnected'
                    /\ isConnected \/ i > 1
          /\ (~isConnected /\ ~isConnected') =>
                /\ last'.calls = <<"producer.connect">>
                /\ ~last'.ok
                /\ last'.error = "KafkaJSConnectionError"
          /\ last'.error = "KafkaJSError" =>
                /\ ~last'.ok
                /\ isConnected'
                /\ IsSend(last'.calls[Len(last'.calls)])
      ]_vars

C24_Witness ==
    /\ last.op = "sendBatch"
    /\ last.calls = <<"producer.connect", "producer.sendBatch">>
    /\ last.error = "KafkaJSError"
    /\ ~last.ok
    /\ isConnected

\* C28: when connect, sendMessage and sendBatch calls overlap while the
\* producer is not connected, producer.connect() of the kafkajs producer is
\* called at most once before the next disconnect.
C28_OneConnectInFlight ==
    client.connects <= 1

\* C25: a message whose payload cannot be parsed or whose handler throws is
\* logged and dropped without the error leaving processMessage, and whatever
\* went wrong before, a message on a topic with a handler is still handed to
\* that handler.
C25_ConsumerSurvivesBadMessages ==
    [][ last'.op = "processMessage" =>
          LET m == last'.args
              registeredTopic == m.topic \in consumer.eventHandlers
              parses == m.value # "Not a valid JSON message"
          IN
          /\ last'.ok
          /\ (registeredTopic /\ parses) =>
                /\ Len(consumer'.handled) = Len(consumer.handled) + 1
                /\ consumer'.handled[Len(consumer'.handled)].topic = m.topic
          /\ (registeredTopic /\ (~parses \/ ~m.handlerOk)) =>
                consumer'.logged = consumer.logged + 1
          /\ (registeredTopic /\ ~parses) =>
                consumer'.handled = consumer.handled
          /\ ~registeredTopic => consumer'.handled = consumer.handled
      ]_vars

C25_Witness ==
    /\ last.op = "processMessage"
    /\ last.ok
    /\ consumer.logged = 2
    /\ consumer.consumed = 3
    /\ last.args.value = "{\"id\":1}"
    /\ last.args.handlerOk
    /\ consumer.handled[Len(consumer.handled)] =
          [topic |-> last.args.topic, data |-> [id |-> 1]]

\* no two rows of the table hold the same e-mail address
UniqueEmails ==
    \A u1, u2 \in users : u1.email = u2.email => u1 = u2

\* C26: whatever the interleaving of concurrent createUser and updateUser
\* calls, the table never holds two rows with the same e-mail address, and a
\* createUser for an address that a row already holds when its INSERT runs
\* (another call got there first) reports no success, adds no row and
\* publishes no user.created.
C26_UniqueEmailUnderRaces ==
    /\ []UniqueEmails
    /\ [][ (last'.op = "createUser" /\ Called("repo.create")') =>
             IF Holder(last'.args.email) # Null
             THEN /\ ~last'.ok
                  /\ last'.event = Null
                  /\ users' = users
             ELSE /\ last'.ok
                  /\ last'.event.topic = "user.created"
                  /\ Cardinality(users') = Cardinality(users) + 1
         ]_vars

C26_Witness ==
    /\ last.op = "createUser"
    /\ ~last.ok
    /\ last.error = "duplicate key value violates unique constraint"
    /\ last.calls = <<"repo.findByEmail", "repo.create">>
    /\ Holder(last.args.email) # Null
    /\ last.event = Null

\* C27: no sequence of POST /register and POST /login requests yields a token
\* whose role claim is admin or manager: an account made through the public
\* register route has role user.
C27_RegisterGivesRoleUser ==
    /\ (last.op = "POST /register" /\ last.ok) => last.value.role = USER
    /\ (last.op = "login" /\ last.ok) => last.value.token.role = USER

\* the queries of the last call that are the given statement
Issued(statement) ==
    {i \in DOMAIN last.calls : last.calls[i] = statement}

\* C29: every call of transaction that acquired a client sends BEGIN first
\* and then ends with COMMIT when BEGIN, the callback and COMMIT succeed, and
\* with one ROLLBACK when one of them fails; it releases the client exactly
\* once; it returns the result of the callback on commit and throws the
\* error of the step that failed otherwise.
C29_TransactionCommitsOrRollsBack ==
    (last.op = "transaction" /\ last.args.acquired) =>
        /\ last.calls[1] = "BEGIN"
        /\ last.args.released = 1
        /\ IF last.args.fails = "none"
           THEN /\ last.calls = <<"BEGIN", "callback", "COMMIT">>
                /\ last.ok
                /\ last.value = [rows |-> 1]
           ELSE /\ Cardinality(Issued("ROLLBACK")) = 1
                /\ last.calls[Len(last.calls)] = "ROLLBACK"
                /\ ~last.ok
                /\ last.error = TxErrorOf(last.args.fails)

\* C30: getPostgresClient never returns a client on which close() has been
\* called, and at most one client that is not closed exists.
C30_SingletonNeverClosing ==
    /\ last.op = "getPostgresClient" => last.value.client \notin Ended
    /\ Cardinality(Clients \ pg.closed) <= 1

====
